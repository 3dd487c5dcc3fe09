------------------------------ MODULE RuleBook ------------------------------
(***************************************************************************)
(* What the Alert Rules page promises: one book of alert rules, on which   *)
(* every edit acts at most once and all at once.  A request answered with  *)
(* success has acted, one refused (404, 409) has not and never will, and   *)
(* one that failed may have acted or may still act.  Developers change the *)
(* book too, with pushes of their own.                                     *)
(***************************************************************************)
EXTENDS Naturals

CONSTANTS Editors, Rules, MaxBody

VARIABLES
    book,     \* the rules in force: Rules -> Bodies, 0 for no rule
    edit,     \* what each editor asked for
    applied,  \* the editors whose edit has acted
    reply     \* what each editor was answered

Bodies == 0 .. MaxBody
Books  == [Rules -> Bodies]
Edit   == [op: {"none", "create", "update", "delete"}, rule: Rules, body: Bodies]
Failed == {"failed", "lost"}

Applies(ed, b) ==
    IF ed.op = "create" THEN b[ed.rule] = 0
                        ELSE ed.op # "none" /\ b[ed.rule] # 0

Edited(ed, b) == [b EXCEPT ![ed.rule] = IF ed.op = "delete" THEN 0 ELSE ed.body]

Init ==
    /\ book \in Books
    /\ edit \in [Editors -> [op: {"none"}, rule: Rules, body: {0}]]
    /\ applied = {}
    /\ reply = [e \in Editors |-> "none"]

Ask(e, ed) ==
    /\ edit[e].op = "none" /\ ed.op # "none"
    /\ edit' = [edit EXCEPT ![e] = ed]
    /\ UNCHANGED <<book, applied, reply>>

Act(e) ==
    /\ e \notin applied /\ reply[e] \in {"none"} \union Failed
    /\ Applies(edit[e], book)
    /\ book' = Edited(edit[e], book)
    /\ applied' = applied \union {e}
    /\ UNCHANGED <<edit, reply>>

Reply(e, answer) ==
    /\ edit[e].op # "none" /\ reply[e] = "none"
    /\ answer = "ok" => e \in applied
    /\ answer = "refused" => e \notin applied
    /\ reply' = [reply EXCEPT ![e] = answer]
    /\ UNCHANGED <<book, edit, applied>>

\* The backend dies: none of the requests it was serving is answered.
LoseAll ==
    /\ reply' = [e \in Editors |->
                   IF edit[e].op # "none" /\ reply[e] = "none" THEN "lost" ELSE reply[e]]
    /\ UNCHANGED <<book, edit, applied>>

Develop == book' \in Books /\ UNCHANGED <<edit, applied, reply>>

Next ==
    \/ \E e \in Editors, ed \in Edit : Ask(e, ed)
    \/ \E e \in Editors : Act(e)
    \/ \E e \in Editors, answer \in {"ok", "refused"} \union Failed : Reply(e, answer)
    \/ LoseAll
    \/ Develop

Spec == Init /\ [][Next]_<<book, edit, applied, reply>>
=============================================================================
