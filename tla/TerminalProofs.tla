--------------------------- MODULE TerminalProofs ---------------------------
(***************************************************************************)
(* Proofs about Terminal: whatever is typed and written, and whichever end *)
(* goes first, no output and no message is lost, doubled or overtaken while*)
(* a session lasts, but for the end of a message to a shell on a node; and *)
(* a client that stays knows how it ended.                                 *)
(***************************************************************************)
EXTENDS Terminal, SequenceTheorems, TLAPS

Own == {Hello, Error, End}

LEMMA OwnAreLines ==
    /\ Own \subseteq Lines /\ 1 .. MaxOut \subseteq Lines
    /\ \A x \in Own : x \notin 1 .. MaxOut
    /\ MaxOut \in Nat /\ MaxIn \in Nat /\ End \notin 1 .. MaxOut
  BY ConstantAssumption DEF Own, Lines

-----------------------------------------------------------------------------
(* Sequences.                                                              *)

\* What is taken from one queue and put into the next is in the same place of both.
LEMMA HandOver ==
    ASSUME NEW S, NEW s \in Seq(S), NEW t \in Seq(S), t # <<>>
    PROVE  /\ Append(s, Head(t)) \o Tail(t) = s \o t
           /\ Head(t) \in S /\ Tail(t) \in Seq(S) /\ Append(s, Head(t)) \in Seq(S)
<1>1. Head(t) = t[1] /\ Head(t) \in S /\ Tail(t) \in Seq(S) /\ Len(t) \in Nat /\ Len(t) > 0
      /\ Len(Tail(t)) = Len(t) - 1 /\ \A i \in 1 .. Len(Tail(t)) : Tail(t)[i] = t[i + 1]
  BY HeadTailProperties, EmptySeq
<1>2. /\ Append(s, Head(t)) \in Seq(S) /\ Len(Append(s, Head(t))) = Len(s) + 1 /\ Len(s) \in Nat
      /\ \A i \in 1 .. Len(s) : Append(s, Head(t))[i] = s[i]
      /\ Append(s, Head(t))[Len(s) + 1] = Head(t)
  BY <1>1, AppendProperties
<1>3. /\ Append(s, Head(t)) \o Tail(t) \in Seq(S)
      /\ Len(Append(s, Head(t)) \o Tail(t)) = Len(s) + 1 + (Len(t) - 1)
      /\ \A i \in 1 .. Len(s) + 1 + (Len(t) - 1) :
            (Append(s, Head(t)) \o Tail(t))[i] =
               IF i <= Len(s) + 1 THEN Append(s, Head(t))[i] ELSE Tail(t)[i - (Len(s) + 1)]
  BY <1>1, <1>2, ConcatProperties
<1>4. /\ s \o t \in Seq(S) /\ Len(s \o t) = Len(s) + Len(t)
      /\ \A i \in 1 .. Len(s) + Len(t) : (s \o t)[i] = IF i <= Len(s) THEN s[i] ELSE t[i - Len(s)]
  BY ConcatProperties
<1>5. ASSUME NEW i \in 1 .. Len(s) + Len(t)
      PROVE  (Append(s, Head(t)) \o Tail(t))[i] = (s \o t)[i]
  <2>1. CASE i <= Len(s)
    BY <1>1, <1>2, <1>3, <1>4, <2>1
  <2>2. CASE i = Len(s) + 1
    BY <1>1, <1>2, <1>3, <1>4, <2>2
  <2>3. CASE i > Len(s) + 1
    BY <1>1, <1>2, <1>3, <1>4, <2>3
  <2> QED
    BY <1>1, <1>2, <2>1, <2>2, <2>3
<1> QED
  BY <1>1, <1>2, <1>3, <1>4, <1>5, SeqEqual

\* What is put into the last queue is put behind everything.
LEMMA AddLast ==
    ASSUME NEW S, NEW s \in Seq(S), NEW t \in Seq(S), NEW x \in S
    PROVE  s \o Append(t, x) = Append(s \o t, x)
<1>1. s \o t \in Seq(S)
  BY ConcatProperties
<1>2. Append(t, x) = t \o <<x>> /\ Append(s \o t, x) = (s \o t) \o <<x>> /\ <<x>> \in Seq(S)
  BY <1>1, AppendIsConcat
<1> QED
  BY <1>2, ConcatAssociative

\* A first part of what is in order is in order.
LEMMA OrderedPrefix ==
    ASSUME NEW s \in Seq(Lines), NEW t \in Seq(Lines), Ordered(s \o t)
    PROVE  Ordered(s)
<1>1. /\ Len(s) \in Nat /\ Len(t) \in Nat
      /\ DOMAIN s = 1 .. Len(s) /\ DOMAIN (s \o t) = 1 .. Len(s) + Len(t)
      /\ \A i \in 1 .. Len(s) : (s \o t)[i] = s[i]
  BY ConcatProperties, LenProperties
<1> QED
  BY <1>1, OwnAreLines DEF Ordered

\* The backend's own lines change neither what is in order nor what is complete.
LEMMA OwnLines ==
    ASSUME NEW s \in Seq(Lines), NEW t \in Seq(Own), NEW n \in Nat
    PROVE  /\ s \o t \in Seq(Lines)
           /\ Ordered(s) => Ordered(s \o t)
           /\ Complete(s \o t, n) <=> Complete(s, n)
<1>1. t \in Seq(Lines)
  BY OwnAreLines, SeqMonotonic
<1>2. /\ Len(s) \in Nat /\ Len(t) \in Nat /\ s \o t \in Seq(Lines)
      /\ DOMAIN s = 1 .. Len(s) /\ DOMAIN (s \o t) = 1 .. Len(s) + Len(t)
      /\ \A i \in 1 .. Len(s) : (s \o t)[i] = s[i]
      /\ \A i \in 1 .. Len(s) + Len(t) : i > Len(s) => (s \o t)[i] = t[i - Len(s)]
  BY <1>1, ConcatProperties, LenProperties
<1>3. \A i \in 1 .. Len(s) + Len(t) : i > Len(s) => (s \o t)[i] \notin 1 .. MaxOut
  <2>1. \A i \in 1 .. Len(t) : t[i] \in Own
    BY ElementOfSeq
  <2> QED
    BY <1>2, <2>1, OwnAreLines
<1>4. Ordered(s) => Ordered(s \o t)
  BY <1>2, <1>3, OwnAreLines DEF Ordered
<1>5. \A k \in 1 .. MaxOut : (\E i \in DOMAIN (s \o t) : (s \o t)[i] = k) <=> (\E i \in DOMAIN s : s[i] = k)
  BY <1>2, <1>3, OwnAreLines
<1> QED
  BY <1>1, <1>2, <1>4, <1>5, OrderedPrefix DEF Complete

\* The next piece behind the first n makes n + 1.
LEMMA NextPiece ==
    ASSUME NEW s \in Seq(Lines), NEW n \in Nat, n < MaxOut, Complete(s, n)
    PROVE  Complete(Append(s, n + 1), n + 1)
<1> DEFINE u == Append(s, n + 1)
<1>1. n + 1 \in 1 .. MaxOut /\ n + 1 \in Lines
  BY OwnAreLines
<1>2. /\ Len(s) \in Nat /\ DOMAIN s = 1 .. Len(s) /\ DOMAIN u = 1 .. Len(s) + 1
      /\ \A i \in 1 .. Len(s) : u[i] = s[i]
      /\ u[Len(s) + 1] = n + 1
  BY <1>1, AppendProperties, LenProperties
<1>3. \A k \in 1 .. MaxOut : (\E i \in 1 .. Len(s) : s[i] = k) <=> k <= n
  BY <1>2 DEF Complete
<1> HIDE DEF u
<1>4. \A k \in 1 .. MaxOut : (\E i \in DOMAIN u : u[i] = k) <=> k <= n + 1
  <2>1. \A k \in 1 .. MaxOut : (\E i \in DOMAIN u : u[i] = k) <=> (\E i \in 1 .. Len(s) : s[i] = k) \/ k = n + 1
    BY <1>2
  <2> QED
    BY <1>1, <1>3, <2>1, OwnAreLines
<1>5. Ordered(u)
  <2> SUFFICES ASSUME NEW j \in 1 .. Len(s) + 1, u[j] \in 1 .. MaxOut
               PROVE  /\ \A k \in 1 .. u[j] - 1 : \E i \in 1 .. j - 1 : u[i] = k
                      /\ \A i \in 1 .. j - 1 : u[i] # u[j]
    BY <1>2 DEF Ordered
  <2>1. CASE j <= Len(s)
    <3>1. /\ \A k \in 1 .. s[j] - 1 : \E i \in 1 .. j - 1 : s[i] = k
          /\ \A i \in 1 .. j - 1 : s[i] # s[j]
      BY <1>2, <2>1 DEF Complete, Ordered
    <3> QED
      BY <1>2, <2>1, <3>1
  <2>2. CASE j = Len(s) + 1
    <3>1. \A k \in 1 .. n : \E i \in 1 .. Len(s) : s[i] = k
      BY <1>1, <1>3, OwnAreLines
    <3>2. \A i \in 1 .. Len(s) : s[i] # n + 1
      BY <1>1, <1>3
    <3> QED
      BY <1>2, <2>2, <3>1, <3>2
  <2> QED
    BY <1>2, <2>1, <2>2
<1> QED
  BY <1>4, <1>5 DEF Complete, u

-----------------------------------------------------------------------------
(* What the thread leaves when it ends.                                    *)

\* The lines of Finish(last) go behind what is in out_q, with End the last.
LEMMA FinishLines ==
    ASSUME TypeOK, NEW last \in Seq({Hello, Error})
    PROVE  /\ outQ \o last \o <<End>> = outQ \o (last \o <<End>>)
           /\ last \o <<End>> \in Seq(Own) /\ outQ \o last \o <<End>> \in Seq(Lines)
           /\ LET q == outQ \o last \o <<End>> IN
              \A i \in DOMAIN q : i < Len(q) /\ q[i] = End => i \in DOMAIN outQ /\ outQ[i] = End
<1>1. outQ \in Seq(Lines) /\ <<End>> \in Seq(Own) /\ last \in Seq(Own)
  BY SeqMonotonic DEF TypeOK, Own
<1>2. last \o <<End>> \in Seq(Own)
  BY <1>1, ConcatProperties
<1>3. last \o <<End>> \in Seq(Lines) /\ last \in Seq(Lines) /\ <<End>> \in Seq(Lines)
  BY <1>1, <1>2, OwnAreLines, SeqMonotonic
<1>4. outQ \o last \o <<End>> = outQ \o (last \o <<End>>)
  BY <1>1, <1>3, ConcatAssociative
<1> DEFINE p == outQ \o last
           q == p \o <<End>>
<1>5. /\ p \in Seq(Lines) /\ Len(outQ) \in Nat /\ Len(last) \in Nat /\ Len(p) = Len(outQ) + Len(last)
      /\ DOMAIN outQ = 1 .. Len(outQ)
      /\ \A i \in 1 .. Len(p) : p[i] = IF i <= Len(outQ) THEN outQ[i] ELSE last[i - Len(outQ)]
  BY <1>1, <1>3, ConcatProperties, LenProperties
<1>6. \A i \in 1 .. Len(last) : last[i] # End
  BY ElementOfSeq, ConstantAssumption
<1>7. /\ q \in Seq(Lines) /\ Len(q) = Len(p) + 1 /\ DOMAIN q = 1 .. Len(q)
      /\ \A i \in 1 .. Len(p) : q[i] = p[i]
  <2> HIDE DEF p
  <2>1. q \in Seq(Lines) /\ Len(q) = Len(p) + Len(<<End>>)
        /\ \A i \in 1 .. Len(p) + Len(<<End>>) : q[i] = IF i <= Len(p) THEN p[i] ELSE <<End>>[i - Len(p)]
    BY <1>3, <1>5, ConcatProperties
  <2>2. Len(<<End>>) = 1
    OBVIOUS
  <2> QED
    BY <1>5, <2>1, <2>2, LenProperties
<1>8. \A i \in DOMAIN q : i < Len(q) /\ q[i] = End => i \in DOMAIN outQ /\ outQ[i] = End
  <2> HIDE DEF p, q
  <2> QED
    BY <1>5, <1>6, <1>7
<1> QED
  BY <1>2, <1>4, <1>7, <1>8

LEMMA NoLast ==
    /\ <<>> \in Seq({Hello, Error}) /\ <<Error>> \in Seq({Hello, Error})
    /\ \A k \in {"logs", "ssh"} : Greeting(k) \in Seq({Hello, Error})
    /\ \A k \in {"logs", "ssh"} : Greeting(k) \o <<Error>> \in Seq({Hello, Error})
<1>1. <<>> \in Seq({Hello, Error}) /\ <<Error>> \in Seq({Hello, Error}) /\ <<Hello>> \in Seq({Hello, Error})
  OBVIOUS
<1>2. \A k \in {"logs", "ssh"} : Greeting(k) \in Seq({Hello, Error})
  BY <1>1 DEF Greeting
<1> QED
  BY <1>1, <1>2, ConcatProperties

\* How the thread goes on or ends.
Ends == \E last \in Seq({Hello, Error}) : Finish(last)

LEMMA ThreadEnds ==
    /\ NextRead => (thread' = "read" /\ UNCHANGED <<wire, outQ>>) \/ (Ends /\ kind = "ssh" /\ remote = "gone")
    /\ ConnectFails => Ends
    /\ Exhausted => Ends
    /\ Break => Ends
<1>1. Finish(<<>>) => Ends
  BY NoLast DEF Ends
<1>2. Finish(<<Error>>) => Ends
  BY NoLast DEF Ends
<1>3. Finish(Greeting("logs") \o <<Error>>) => Ends
  BY NoLast DEF Ends
<1>4. ASSUME NEW A, A = <<>> \/ A = <<Error>>, Finish(A)
      PROVE  Ends
  BY <1>1, <1>2, <1>4
<1>5. NextRead => (thread' = "read" /\ UNCHANGED <<wire, outQ>>) \/ (Ends /\ kind = "ssh" /\ remote = "gone")
  BY <1>1 DEF NextRead
<1>6. ConnectFails => Ends
  BY <1>3 DEF ConnectFails
<1>7. Exhausted => Ends
  BY <1>1, <1>2 DEF Exhausted
<1>8. Break => Ends
  BY <1>4 DEF Break
<1> QED
  BY <1>5, <1>6, <1>7, <1>8

\* The types after the thread has ended.
LEMMA EndsTypes ==
    ASSUME TypeOK, Ends
    PROVE  thread' = "done" /\ outQ' \in Seq(Lines) /\ wire' = <<>>
  BY FinishLines DEF Ends, Finish

-----------------------------------------------------------------------------
(* Types.                                                                  *)

LEMMA HandlerTypes ==
    ASSUME TypeOK, Handle \/ Send \/ Type \/ Leave \/ Write \/ Exit
    PROVE  TypeOK'
<1>1. shown \in Seq(Lines \ {End}) /\ <<Error>> \in Seq(Lines \ {End})
  BY ConstantAssumption DEF TypeOK, Lines
<1>2. CASE Refuse
  BY <1>1, <1>2 DEF Refuse, TypeOK, input
<1>3. CASE Open
  BY <1>3 DEF Open, TypeOK, input, output
<1>4. CASE Receive
  <2>1. Head(sent) \in 1 .. MaxIn /\ Tail(sent) \in Seq(1 .. MaxIn)
    BY <1>4, HeadTailProperties DEF Receive, TypeOK
  <2>2. Append(inQ, Head(sent)) \in Seq(1 .. MaxIn)
    BY <2>1, AppendProperties DEF TypeOK
  <2> QED
    BY <1>4, <2>1, <2>2 DEF Receive, TypeOK, output
<1>5. CASE Disconnected
  BY <1>5 DEF Disconnected, TypeOK, input, output
<1>6. CASE Send
  <2>1. Head(outQ) \in Lines /\ Tail(outQ) \in Seq(Lines)
    BY <1>6, HeadTailProperties DEF Send, TypeOK
  <2>2. Head(outQ) # End => Append(shown, Head(outQ)) \in Seq(Lines \ {End})
    BY <2>1, AppendProperties DEF TypeOK
  <2> QED
    BY <1>6, <2>1, <2>2 DEF Send, TypeOK, input
<1>7. CASE Type
  <2>1. typed + 1 \in 1 .. MaxIn /\ typed + 1 \in 0 .. MaxIn
    BY <1>7, ConstantAssumption DEF Type, TypeOK
  <2>2. Append(sent, typed + 1) \in Seq(1 .. MaxIn)
    BY <2>1, AppendProperties DEF TypeOK
  <2> QED
    BY <1>7, <2>1, <2>2 DEF Type, TypeOK, output
<1>8. CASE Leave
  BY <1>8 DEF Leave, TypeOK, input, output
<1>9. CASE Write
  <2>1. written + 1 \in 1 .. MaxOut /\ written + 1 \in 0 .. MaxOut
    BY <1>9, ConstantAssumption DEF Write, TypeOK
  <2>2. Append(wire, written + 1) \in Seq(1 .. MaxOut)
    BY <2>1, AppendProperties DEF TypeOK
  <2> QED
    BY <1>9, <2>1, <2>2 DEF Write, TypeOK, input
<1>10. CASE Exit
  BY <1>10 DEF Exit, TypeOK, input, output
<1> QED
  BY <1>2, <1>3, <1>4, <1>5, <1>6, <1>7, <1>8, <1>9, <1>10 DEF Handle

LEMMA ThreadTypes ==
    ASSUME TypeOK, Work \/ Fails
    PROVE  TypeOK'
<1>1. Ends => thread' = "done" /\ outQ' \in Seq(Lines) /\ wire' \in Seq(1 .. MaxOut)
  BY EndsTypes
<1>2. inQ # <<>> => Tail(inQ) \in Seq(1 .. MaxIn) /\ Append(got, Head(inQ)) \in Seq(1 .. MaxIn)
  BY HandOver DEF TypeOK
<1>3. CASE LoadFails
  BY <1>3 DEF LoadFails, Trouble, TypeOK, input, output
<1>4. CASE Connect
  <2>1. Greeting("logs") \in Seq(Lines) /\ Greeting("ssh") \in Seq(Lines)
    BY NoLast, OwnAreLines, SeqMonotonic DEF Own
  <2>2. outQ' \in Seq(Lines)
    BY <1>4, <2>1, ConcatProperties DEF Connect, TypeOK
  <2> QED
    BY <1>4, <2>2 DEF Connect, TypeOK, input
<1>5. CASE ConnectFails
  BY <1>1, <1>5, ThreadEnds DEF ConnectFails, Trouble, TypeOK, input
<1>6. CASE ReadOutput
  <2>1. Head(wire) \in Lines /\ Tail(wire) \in Seq(1 .. MaxOut)
    BY <1>6, HeadTailProperties DEF ReadOutput, TypeOK, Lines
  <2>2. Append(outQ, Head(wire)) \in Seq(Lines)
    BY <2>1, AppendProperties DEF TypeOK
  <2> QED
    BY <1>6, <2>1, <2>2 DEF ReadOutput, TypeOK, input
<1>7. CASE Pause
  BY <1>7 DEF Pause, TypeOK, input, output
<1>8. CASE Exhausted
  BY <1>1, <1>2, <1>8, ThreadEnds DEF Exhausted, TypeOK
<1>9. CASE NoInput
  BY <1>1, <1>9, ThreadEnds DEF NoInput, TypeOK, input
<1>10. CASE WriteInput
  <2>1. Head(inQ) \in 1 .. MaxIn
    BY <1>10, HeadTailProperties DEF WriteInput, TypeOK
  <2>2. cut' \subseteq 1 .. MaxIn
    BY <1>10, <2>1 DEF WriteInput, TypeOK
  <2> QED
    BY <1>1, <1>2, <1>10, <2>2, ThreadEnds DEF WriteInput, TypeOK
<1>11. CASE WriteToNobody
  <2>1. Finish(<<Error>>) => Ends
    BY NoLast DEF Ends
  <2> QED
    BY <1>1, <1>2, <1>11, <2>1, ThreadEnds DEF WriteToNobody, TypeOK
<1>12. CASE Break
  BY <1>1, <1>12, ThreadEnds DEF Break, Trouble, TypeOK, input
<1> QED
  BY <1>3, <1>4, <1>5, <1>6, <1>7, <1>8, <1>9, <1>10, <1>11, <1>12 DEF Work, Fails

LEMMA TypesStep ==
    ASSUME TypeOK, [Next]_vars
    PROVE  TypeOK'
<1>1. CASE UNCHANGED vars
  BY <1>1 DEF vars, output, input, TypeOK
<1> QED
  BY <1>1, HandlerTypes, ThreadTypes DEF Next

-----------------------------------------------------------------------------
(* What is typed.                                                          *)

LEMMA Counting ==
    ASSUME NEW n \in Nat
    PROVE  /\ UpTo(n) \in Seq(Nat) /\ Len(UpTo(n)) = n
           /\ UpTo(n + 1) = Append(UpTo(n), n + 1)
<1>1. \A m \in Nat : UpTo(m) \in Seq(Nat) /\ Len(UpTo(m)) = m
  BY DEF UpTo
<1>2. /\ Append(UpTo(n), n + 1) \in Seq(Nat) /\ Len(Append(UpTo(n), n + 1)) = n + 1
      /\ \A i \in 1 .. n : Append(UpTo(n), n + 1)[i] = UpTo(n)[i]
      /\ Append(UpTo(n), n + 1)[n + 1] = n + 1
  <2> DEFINE u == UpTo(n)
  <2>1. u \in Seq(Nat) /\ Len(u) = n /\ n + 1 \in Nat
    BY <1>1
  <2> HIDE DEF u
  <2>2. /\ Append(u, n + 1) \in Seq(Nat) /\ Len(Append(u, n + 1)) = n + 1
        /\ \A i \in 1 .. n : Append(u, n + 1)[i] = u[i]
        /\ Append(u, n + 1)[n + 1] = n + 1
    BY <2>1, AppendProperties
  <2> QED
    BY <2>2 DEF u
<1>3. \A i \in 1 .. n + 1 : UpTo(n + 1)[i] = Append(UpTo(n), n + 1)[i]
  BY <1>2 DEF UpTo
<1>4. UpTo(n + 1) \in Seq(Nat) /\ Len(UpTo(n + 1)) = n + 1
  BY <1>1
<1>5. UpTo(n + 1) = Append(UpTo(n), n + 1)
  <2> DEFINE u == UpTo(n + 1)
             a == Append(UpTo(n), n + 1)
  <2>1. u \in Seq(Nat) /\ a \in Seq(Nat) /\ Len(u) = Len(a) /\ \A i \in 1 .. Len(u) : u[i] = a[i]
    BY <1>2, <1>3, <1>4
  <2> HIDE DEF u, a
  <2>2. u = a
    BY <2>1, SeqEqual
  <2> QED
    BY <2>2 DEF u, a
<1> QED
  BY <1>1, <1>5

\* A first part of 1, 2, 3, ... is one itself.
LEMMA CountingPrefix ==
    ASSUME NEW s \in Seq(Nat), NEW t \in Seq(Nat), NEW n \in Nat, s \o t = UpTo(n)
    PROVE  s = UpTo(Len(s))
<1>1. /\ Len(s) \in Nat /\ Len(t) \in Nat /\ Len(s \o t) = Len(s) + Len(t)
      /\ \A i \in 1 .. Len(s) : (s \o t)[i] = s[i]
  BY ConcatProperties, LenProperties
<1>2. Len(s) <= n /\ UpTo(Len(s)) \in Seq(Nat) /\ Len(UpTo(Len(s))) = Len(s)
  <2>1. Len(UpTo(n)) = n
    BY Counting
  <2>2. \A m \in Nat : UpTo(m) \in Seq(Nat) /\ Len(UpTo(m)) = m
    BY Counting
  <2> QED
    BY <1>1, <2>1, <2>2
<1>3. \A i \in 1 .. Len(s) : s[i] = UpTo(Len(s))[i]
  <2> SUFFICES ASSUME NEW i \in 1 .. Len(s)
               PROVE  s[i] = UpTo(Len(s))[i]
    OBVIOUS
  <2>1. i \in 1 .. n /\ s[i] = UpTo(n)[i]
    BY <1>1, <1>2
  <2>2. UpTo(n)[i] = i
    BY <2>1 DEF UpTo
  <2>3. UpTo(Len(s))[i] = i
    BY DEF UpTo
  <2> QED
    BY <2>1, <2>2, <2>3
<1> QED
  BY <1>2, <1>3, SeqEqual

LEMMA TypedNumbers ==
    ASSUME TypeOK
    PROVE  /\ got \in Seq(Nat) /\ inQ \in Seq(Nat) /\ sent \in Seq(Nat) /\ typed \in Nat
           /\ got \o inQ \in Seq(Nat) /\ inQ \o sent \in Seq(Nat)
           /\ got \o inQ \o sent = got \o (inQ \o sent)
<1>1. 1 .. MaxIn \subseteq Nat /\ 0 .. MaxIn \subseteq Nat
  BY ConstantAssumption
<1>2. got \in Seq(Nat) /\ inQ \in Seq(Nat) /\ sent \in Seq(Nat) /\ typed \in Nat
  BY <1>1, SeqMonotonic DEF TypeOK
<1> QED
  BY <1>2, ConcatProperties, ConcatAssociative

LEMMA BehindBoth ==
    \A r, s, t \in Seq(Nat) :
        /\ r \o s \o t = r \o (s \o t)
        /\ t # <<>> => r \o Append(s, Head(t)) \o Tail(t) = r \o s \o t
<1>1. \A r, s, t \in Seq(Nat) : r \o s \o t = r \o (s \o t)
  BY ConcatAssociative
<1>2. ASSUME NEW r \in Seq(Nat), NEW s \in Seq(Nat), NEW t \in Seq(Nat), t # <<>>
      PROVE  r \o Append(s, Head(t)) \o Tail(t) = r \o s \o t
  <2>1. /\ Append(s, Head(t)) \o Tail(t) = s \o t
        /\ Tail(t) \in Seq(Nat) /\ Append(s, Head(t)) \in Seq(Nat)
    BY <1>2, HandOver
  <2>2. r \o Append(s, Head(t)) \o Tail(t) = r \o (Append(s, Head(t)) \o Tail(t))
    BY <1>1, <2>1
  <2>3. r \o s \o t = r \o (s \o t)
    BY <1>1
  <2> QED
    BY <2>1, <2>2, <2>3, Zenon
<1> QED
  BY <1>1, <1>2

\* What is typed is in one of three places, in its order, and only there.
InputInOrder == remote # "gone" /\ kind # "logs" => got \o inQ \o sent = UpTo(typed)

LEMMA InputStep ==
    ASSUME TypeOK, Stages, InputInOrder, got = UpTo(Len(got)), [Next]_vars
    PROVE  InputInOrder' /\ (got = UpTo(Len(got)))'
<1>1. CASE UNCHANGED <<kind, remote, got, inQ, sent, typed>>
  BY <1>1 DEF InputInOrder, UpTo
<1>2. CASE UNCHANGED got /\ (remote' = "gone" \/ (UNCHANGED kind /\ kind = "logs"))
  BY <1>2 DEF InputInOrder, UpTo
<1>3. CASE Receive
  <2>1. CASE kind = "logs"
    BY <1>2, <1>3, <2>1 DEF Receive
  <2>2. CASE kind # "logs"
    <3>1. UNCHANGED <<kind, remote, got, typed>> /\ inQ' = Append(inQ, Head(sent)) /\ sent' = Tail(sent)
      BY <1>3, <2>2 DEF Receive
    <3>2. got \in Seq(Nat) /\ inQ \in Seq(Nat) /\ sent \in Seq(Nat) /\ sent # <<>>
      BY <1>3, TypedNumbers DEF Receive
    <3>3. got \o Append(inQ, Head(sent)) \o Tail(sent) = got \o inQ \o sent
      BY <3>2, BehindBoth
    <3> QED
      BY <3>1, <3>3 DEF InputInOrder, UpTo
  <2> QED
    BY <2>1, <2>2
<1>4. CASE WriteInput
  <2>1. UNCHANGED <<kind, remote, typed, sent>> /\ got' = Append(got, Head(inQ)) /\ inQ' = Tail(inQ)
        /\ inQ # <<>> /\ remote = "up" /\ kind # "logs"
    BY <1>4 DEF WriteInput, Stages
  <2>2. got' \o inQ' = got \o inQ /\ got' \in Seq(Nat) /\ inQ' \in Seq(Nat)
    BY <2>1, HandOver, TypedNumbers
  <2>3. got' \o inQ' \o sent = UpTo(typed)
    BY <2>1, <2>2 DEF InputInOrder
  <2>4. got' \o (inQ' \o sent) = UpTo(typed) /\ inQ' \o sent \in Seq(Nat)
    <3>1. sent \in Seq(Nat)
      BY TypedNumbers
    <3>2. inQ' \o sent \in Seq(Nat)
      BY <2>2, <3>1, ConcatProperties
    <3>3. got' \o inQ' \o sent = got' \o (inQ' \o sent)
      BY <2>2, <3>1, BehindBoth
    <3> QED
      BY <2>3, <3>2, <3>3
  <2>5. got' = UpTo(Len(got'))
    BY <2>2, <2>4, CountingPrefix, TypedNumbers
  <2> QED
    BY <2>1, <2>3, <2>5 DEF InputInOrder, UpTo
<1>5. CASE Type
  <2>1. UNCHANGED <<kind, remote, got, inQ>> /\ typed' = typed + 1 /\ sent' = Append(sent, typed + 1)
    BY <1>5 DEF Type
  <2>2. got \o inQ \o sent' = Append(got \o inQ \o sent, typed + 1)
    BY <2>1, AddLast, TypedNumbers
  <2>3. UpTo(typed + 1) = Append(UpTo(typed), typed + 1)
    BY Counting, TypedNumbers
  <2> QED
    BY <2>1, <2>2, <2>3 DEF InputInOrder, UpTo
<1>6. CASE Exhausted \/ WriteToNobody \/ Break \/ Exit
  <2>1. UNCHANGED got /\ remote' = "gone"
    BY <1>6 DEF Exhausted, WriteToNobody, Break, Exit, input
  <2> QED
    BY <1>2, <2>1
<1>7. CASE Connect \/ NoInput \/ Write \/ Leave \/ Send \/ LoadFails \/ ConnectFails \/ ReadOutput \/ Pause
  <2>1. UNCHANGED <<kind, got, inQ, sent, typed>>
    BY <1>7 DEF Connect, NoInput, Write, Leave, Send, LoadFails, ConnectFails, ReadOutput, Pause, input
  <2>2. remote' = remote \/ remote # "gone"
    BY <1>7 DEF Connect, NoInput, Write, Leave, Send, LoadFails, ConnectFails, ReadOutput, Pause, Stages
  <2> QED
    BY <2>1, <2>2 DEF InputInOrder, UpTo
<1>8. CASE Refuse \/ Open \/ Disconnected
  BY <1>1, <1>8 DEF Refuse, Open, Disconnected, input
<1>9. CASE UNCHANGED vars
  BY <1>1, <1>9 DEF vars, input
<1> QED
  BY <1>3, <1>4, <1>5, <1>6, <1>7, <1>8, <1>9 DEF Next, Handle, Work, Fails

\* What arrived in part is one of the messages that arrived, at a shell on a node.
CutIsKnown == cut \subseteq 1 .. Len(got) /\ (kind # "ssh" => cut = {})

LEMMA CutStep ==
    ASSUME TypeOK, CutIsKnown, got = UpTo(Len(got)), (got = UpTo(Len(got)))', [Next]_vars
    PROVE  CutIsKnown'
<1>1. CASE UNCHANGED <<kind, got, cut>>
  BY <1>1 DEF CutIsKnown
<1>2. CASE WriteInput
  <2>1. /\ got' = Append(got, Head(inQ)) /\ inQ # <<>> /\ kind' = kind
        /\ cut' = cut \/ (kind = "ssh" /\ cut' = cut \union {Head(inQ)})
    BY <1>2 DEF WriteInput
  <2>2. got \in Seq(Nat) /\ Head(inQ) \in Nat /\ Len(got) \in Nat
    BY <2>1, TypedNumbers, HandOver, LenProperties
  <2>3. Len(got') = Len(got) + 1 /\ got'[Len(got) + 1] = Head(inQ)
    BY <2>1, <2>2, AppendProperties
  <2>4. Head(inQ) = Len(got')
    <3>1. got' = UpTo(Len(got')) /\ Len(got') \in 1 .. Len(got')
      BY <2>2, <2>3
    <3>2. UpTo(Len(got'))[Len(got')] = Len(got')
      BY <3>1 DEF UpTo
    <3> QED
      BY <2>3, <3>1, <3>2
  <2>5. 1 .. Len(got) \subseteq 1 .. Len(got') /\ Len(got') \in 1 .. Len(got')
    BY <2>2, <2>3
  <2>6. cut' \subseteq 1 .. Len(got')
    BY <2>1, <2>4, <2>5, Zenon DEF CutIsKnown
  <2>7. kind' # "ssh" => cut' = {}
    BY <2>1 DEF CutIsKnown
  <2> QED
    BY <2>6, <2>7 DEF CutIsKnown
<1>3. CASE Exhausted \/ WriteToNobody \/ Break \/ Exit
  BY <1>1, <1>3 DEF Exhausted, WriteToNobody, Break, Exit, input
<1>4. CASE Connect \/ NoInput \/ Write \/ Leave \/ Send \/ LoadFails \/ ConnectFails \/ ReadOutput \/ Pause
  BY <1>1, <1>4 DEF Connect, NoInput, Write, Leave, Send, LoadFails, ConnectFails, ReadOutput, Pause, input
<1>5. CASE Refuse \/ Open \/ Receive \/ Disconnected \/ Type
  BY <1>1, <1>5 DEF Refuse, Open, Receive, Disconnected, Type, input
<1>6. CASE UNCHANGED vars
  BY <1>1, <1>6 DEF vars, input
<1> QED
  BY <1>2, <1>3, <1>4, <1>5, <1>6 DEF Next, Handle, Work, Fails

-----------------------------------------------------------------------------
(* Where the activities can be.                                            *)

LEMMA StagesStep ==
    ASSUME TypeOK, Stages, [Next]_vars
    PROVE  Stages'
<1>1. Ends => thread' = "done" /\ wire' = <<>>
  BY EndsTypes
<1>2. CASE Refuse \/ Open \/ Receive \/ Disconnected
  BY <1>2 DEF Refuse, Open, Receive, Disconnected, Stages, input, output
<1>3. CASE Send \/ Type \/ Leave \/ Write \/ Exit
  BY <1>3 DEF Send, Type, Leave, Write, Exit, Stages, input, output
<1>4. CASE LoadFails \/ Connect \/ Pause
  BY <1>4 DEF LoadFails, Connect, Pause, Stages, input, output
<1>5. CASE ReadOutput
  BY <1>5 DEF ReadOutput, Stages, input
<1>6. CASE ConnectFails \/ Exhausted \/ Break
  <2>1. thread' = "done" /\ wire' = <<>>
    BY <1>1, <1>6, ThreadEnds
  <2>2. /\ UNCHANGED <<kind, handler, sender, socket, written, shown, got>>
        /\ thread \in {"connect", "read", "input"}
        /\ inQ' = inQ \/ kind = "exec"
        /\ \/ remote' = remote /\ (remote = "gone" \/ thread = "connect")
           \/ remote' = "gone"
    BY <1>6 DEF ConnectFails, Exhausted, Break, input
  <2> QED
    BY <2>1, <2>2 DEF Stages
<1>7. CASE NoInput \/ WriteInput \/ WriteToNobody
  <2>1. Finish(<<Error>>) => Ends
    BY NoLast DEF Ends
  <2>2. \/ thread' = "read" /\ wire' = wire
        \/ thread' = "done" /\ wire' = <<>> /\ remote = "gone"
    BY <1>1, <1>7, <2>1, ThreadEnds DEF NoInput, WriteInput, WriteToNobody
  <2>3. /\ UNCHANGED <<kind, handler, sender, socket, remote, written, shown>>
        /\ thread = "input"
        /\ (UNCHANGED <<inQ, got>>) \/ inQ # <<>>
    BY <1>7 DEF NoInput, WriteInput, WriteToNobody, input
  <2> QED
    BY <2>2, <2>3 DEF Stages
<1>8. CASE UNCHANGED vars
  BY <1>8 DEF vars, Stages, input, output
<1> QED
  BY <1>2, <1>3, <1>4, <1>5, <1>6, <1>7, <1>8 DEF Next, Handle, Work, Fails

\* How the thread's queue can change.
LEMMA QueueStep ==
    ASSUME TypeOK, Stages, [Next]_vars
    PROVE  \/ UNCHANGED outQ /\ (thread = "done" => thread' = "done")
           \/ Send
           \/ ReadOutput
           \/ Connect
           \/ Ends /\ thread # "done" /\ sender' = sender /\ socket' = socket
<1>1. Finish(<<Error>>) => Ends
  BY NoLast DEF Ends
<1>2. CASE Refuse \/ Open \/ Receive \/ Disconnected \/ Type \/ Leave \/ Write \/ Exit
  BY <1>2 DEF Refuse, Open, Receive, Disconnected, Type, Leave, Write, Exit, Stages, input, output
<1>3. CASE LoadFails \/ Pause
  BY <1>3 DEF LoadFails, Pause, input, output
<1>4. CASE ConnectFails \/ Exhausted \/ Break
  BY <1>4, ThreadEnds DEF ConnectFails, Exhausted, Break
<1>5. CASE NoInput \/ WriteInput \/ WriteToNobody
  BY <1>1, <1>5, ThreadEnds DEF NoInput, WriteInput, WriteToNobody
<1>6. CASE UNCHANGED vars
  BY <1>6 DEF vars, output
<1> QED
  BY <1>2, <1>3, <1>4, <1>5, <1>6 DEF Next, Handle, Work, Fails

LEMMA LastLineStep ==
    ASSUME TypeOK, Stages, LastLine, [Next]_vars
    PROVE  LastLine'
<1>1. Len(outQ) \in Nat /\ DOMAIN outQ = 1 .. Len(outQ) /\ outQ \in Seq(Lines)
  BY LenProperties DEF TypeOK
<1>2. sender' = "done" /\ socket' = "open" =>
          \/ sender = "done" /\ socket = "open"
          \/ Send /\ outQ # <<>> /\ Head(outQ) = End
  <2>1. CASE Refuse \/ Open \/ Receive \/ Disconnected \/ Type \/ Leave \/ Write \/ Exit
    BY <2>1 DEF Refuse, Open, Receive, Disconnected, Type, Leave, Write, Exit, Stages
  <2>2. CASE Send
    BY <2>2 DEF Send
  <2>3. CASE LoadFails \/ Connect \/ Pause \/ ReadOutput \/ ConnectFails
    BY <2>3 DEF LoadFails, Connect, Pause, ReadOutput, ConnectFails
  <2>4. CASE Exhausted \/ Break \/ NoInput \/ WriteInput \/ WriteToNobody
    BY <2>4 DEF Exhausted, Break, NoInput, WriteInput, WriteToNobody
  <2>5. CASE UNCHANGED vars
    BY <2>5 DEF vars
  <2> QED
    BY <2>1, <2>2, <2>3, <2>4, <2>5 DEF Next, Handle, Work, Fails
<1>3. CASE UNCHANGED outQ /\ (thread = "done" => thread' = "done") /\ ~Send
  BY <1>2, <1>3 DEF LastLine
<1>4. CASE Send
  <2>1. /\ outQ # <<>> /\ outQ' = Tail(outQ) /\ thread' = thread
        /\ Head(outQ) # End => sender' # "done" \/ socket' # "open"
    BY <1>4 DEF Send
  <2>2. /\ Head(outQ) = outQ[1] /\ Len(outQ) > 0
        /\ Len(outQ') = Len(outQ) - 1 /\ DOMAIN outQ' = 1 .. Len(outQ) - 1
        /\ \A i \in 1 .. Len(outQ) - 1 : outQ'[i] = outQ[i + 1]
        /\ Len(outQ) = 1 => outQ' = <<>>
    <3>1. Tail(outQ) \in Seq(Lines) /\ Head(outQ) = outQ[1] /\ Len(Tail(outQ)) = Len(outQ) - 1
          /\ \A i \in 1 .. Len(Tail(outQ)) : Tail(outQ)[i] = outQ[i + 1]
      BY <1>1, <2>1, HeadTailProperties
    <3>2. Len(Tail(outQ)) = 0 => Tail(outQ) = <<>>
      BY <3>1, EmptySeq
    <3>3. Len(outQ) > 0
      BY <1>1, <2>1, EmptySeq
    <3>4. DOMAIN Tail(outQ) = 1 .. Len(Tail(outQ))
      BY <3>1, LenProperties
    <3> QED
      BY <1>1, <2>1, <3>1, <3>2, <3>3, <3>4
  <2>3. \A i \in DOMAIN outQ' : outQ'[i] = End => thread' = "done" /\ i = Len(outQ')
    BY <1>1, <2>1, <2>2 DEF LastLine
  <2>4. sender' = "done" /\ socket' = "open" => thread' = "done" /\ outQ' = <<>>
    BY <1>1, <2>1, <2>2 DEF LastLine
  <2> QED
    BY <2>3, <2>4 DEF LastLine
<1>5. CASE ReadOutput
  <2>1. /\ outQ' = Append(outQ, Head(wire)) /\ thread # "done" /\ sender' = sender /\ socket' = socket
        /\ Head(wire) \in 1 .. MaxOut
    BY <1>5, HeadTailProperties DEF ReadOutput, TypeOK
  <2>2. /\ DOMAIN outQ' = 1 .. Len(outQ) + 1 /\ outQ'[Len(outQ) + 1] = Head(wire)
        /\ \A i \in 1 .. Len(outQ) : outQ'[i] = outQ[i]
    <3>1. Head(wire) \in Lines
      BY <2>1, OwnAreLines
    <3> QED
      BY <1>1, <2>1, <3>1, AppendProperties, LenProperties
  <2> QED
    BY <1>1, <2>1, <2>2, OwnAreLines DEF LastLine
<1>6. CASE Connect
  <2>1. \A i \in DOMAIN outQ : outQ[i] # End
    BY <1>6 DEF Connect, LastLine
  <2>2. outQ \in Seq(Lines \ {End})
    <3>1. \A i \in 1 .. Len(outQ) : outQ[i] \in Lines \ {End}
      BY <1>1, <2>1, ElementOfSeq
    <3> QED
      BY <1>1, <3>1
  <2>3. Greeting("logs") \in Seq(Lines \ {End}) /\ Greeting("ssh") \in Seq(Lines \ {End})
    <3>1. {Hello, Error} \subseteq Lines \ {End}
      BY ConstantAssumption DEF Lines
    <3> QED
      BY <3>1, NoLast, SeqMonotonic
  <2>4. outQ' \in Seq(Lines \ {End})
    BY <1>6, <2>2, <2>3, ConcatProperties DEF Connect
  <2>5. \A i \in DOMAIN outQ' : outQ'[i] # End
    BY <2>4, LenProperties, ElementOfSeq
  <2> QED
    BY <1>6, <2>5 DEF Connect, LastLine
<1>7. CASE Ends /\ thread # "done" /\ sender' = sender /\ socket' = socket
  <2>1. PICK last \in Seq({Hello, Error}) : Finish(last)
    BY <1>7 DEF Ends
  <2>2. /\ thread' = "done" /\ outQ' = outQ \o last \o <<End>> /\ outQ' \in Seq(Lines)
        /\ \A i \in DOMAIN outQ' : i < Len(outQ') /\ outQ'[i] = End => i \in DOMAIN outQ /\ outQ[i] = End
    BY <2>1, FinishLines DEF Finish
  <2>3. Len(outQ') \in Nat /\ DOMAIN outQ' = 1 .. Len(outQ')
    BY <2>2, LenProperties
  <2> QED
    BY <1>7, <2>2, <2>3 DEF LastLine
<1> QED
  BY <1>3, <1>4, <1>5, <1>6, <1>7, QueueStep

-----------------------------------------------------------------------------
(* What is written.                                                        *)

LEMMA Chain ==
    ASSUME TypeOK
    PROVE  /\ shown \in Seq(Lines) /\ outQ \in Seq(Lines) /\ wire \in Seq(Lines)
           /\ Sent \in Seq(Lines) /\ Sent \o wire \in Seq(Lines)
           /\ Sent \o <<>> = Sent /\ written \in Nat
<1>1. shown \in Seq(Lines) /\ outQ \in Seq(Lines) /\ wire \in Seq(Lines)
  BY OwnAreLines, SeqMonotonic DEF TypeOK
<1>2. Sent \in Seq(Lines)
  BY <1>1, ConcatProperties DEF Sent
<1> QED
  BY <1>1, <1>2, ConcatProperties, ConcatEmptySeq, OwnAreLines DEF TypeOK

LEMMA LinesBehind ==
    \A r, s, t \in Seq(Lines) :
        /\ r \o s \o t = r \o (s \o t)
        /\ t # <<>> => r \o Append(s, Head(t)) \o Tail(t) = r \o s \o t
<1>1. \A r, s, t \in Seq(Lines) : r \o s \o t = r \o (s \o t)
  BY ConcatAssociative
<1>2. ASSUME NEW r \in Seq(Lines), NEW s \in Seq(Lines), NEW t \in Seq(Lines), t # <<>>
      PROVE  r \o Append(s, Head(t)) \o Tail(t) = r \o s \o t
  <2>1. /\ Append(s, Head(t)) \o Tail(t) = s \o t
        /\ Tail(t) \in Seq(Lines) /\ Append(s, Head(t)) \in Seq(Lines)
    BY <1>2, HandOver
  <2>2. r \o Append(s, Head(t)) \o Tail(t) = r \o (Append(s, Head(t)) \o Tail(t))
    BY <1>1, <2>1
  <2>3. r \o s \o t = r \o (s \o t)
    BY <1>1
  <2> QED
    BY <2>1, <2>2, <2>3, Zenon
<1> QED
  BY <1>1, <1>2

\* What is written is in one of three places, in its order, and only there.
OutputInOrder == thread # "done" /\ socket = "open" => Complete(Sent \o wire, written)

\* What the sender takes from the queue it gives to the client.
LEMMA SendKeeps ==
    ASSUME TypeOK, Send, Head(outQ) # End, socket = "open"
    PROVE  Sent' = Sent
<1>1. outQ \in Seq(Lines) /\ shown \in Seq(Lines) /\ outQ # <<>>
  BY Chain DEF Send
<1>2. Append(shown, Head(outQ)) \o Tail(outQ) = shown \o outQ
  BY <1>1, HandOver
<1>3. shown' = Append(shown, Head(outQ)) /\ outQ' = Tail(outQ)
  BY DEF Send
<1> QED
  BY <1>2, <1>3 DEF Sent

\* Lines of the backend's own behind what the sender has leave it complete.
LEMMA OwnBehind ==
    ASSUME TypeOK, NEW own \in Seq(Own), UNCHANGED shown, outQ' = outQ \o own
    PROVE  /\ Sent' = Sent \o own /\ Sent' \in Seq(Lines) /\ Sent' \o <<>> = Sent'
           /\ Ordered(Sent) => Ordered(Sent')
           /\ \A n \in Nat : Complete(Sent', n) <=> Complete(Sent, n)
<1>1. own \in Seq(Lines) /\ shown \in Seq(Lines) /\ outQ \in Seq(Lines)
  BY OwnAreLines, SeqMonotonic, Chain
<1>2. shown \o (outQ \o own) = shown \o outQ \o own
  BY <1>1, LinesBehind
<1>3. Sent' = Sent \o own
  BY <1>2 DEF Sent
<1>4. Sent' \in Seq(Lines)
  BY <1>3, Chain, OwnLines
<1>5. Sent' \o <<>> = Sent'
  BY <1>4, ConcatEmptySeq
<1> QED
  BY <1>3, <1>4, <1>5, Chain, OwnLines

LEMMA OutputStep ==
    ASSUME TypeOK, Stages, LastLine, OutputInOrder, [Next]_vars
    PROVE  OutputInOrder'
<1> SUFFICES ASSUME thread' # "done", socket' = "open"
             PROVE  Complete(Sent' \o wire', written')
  BY DEF OutputInOrder, Complete, Ordered
<1>1. CASE UNCHANGED <<shown, outQ, wire, written>> /\ thread # "done" /\ socket = "open"
  <2>1. Sent' = Sent
    BY <1>1 DEF Sent
  <2> QED
    BY <1>1, <2>1 DEF OutputInOrder
<1>2. CASE Open
  <2>1. shown' = <<>> /\ outQ' = <<>> /\ wire' = <<>> /\ written' = 0
    BY <1>2 DEF Open, Stages, output
  <2>2. <<>> \o <<>> \o <<>> = <<>>
    OBVIOUS
  <2>3. Complete(<<>>, 0)
    BY DEF Complete, Ordered
  <2> QED
    BY <2>1, <2>2, <2>3 DEF Sent
<1>3. CASE Send
  <2>1. thread # "done" /\ socket = "open" /\ UNCHANGED <<wire, written>>
    BY <1>3 DEF Send
  <2>2. Head(outQ) # End
    <3>1. outQ \in Seq(Lines) /\ outQ # <<>>
      BY <1>3, Chain DEF Send
    <3>2. Head(outQ) = outQ[1] /\ 1 \in DOMAIN outQ
      BY <3>1, HeadTailProperties, EmptySeq, LenProperties
    <3> QED
      BY <2>1, <3>2 DEF LastLine
  <2>3. Sent' = Sent
    BY <1>3, <2>1, <2>2, SendKeeps
  <2> QED
    BY <2>1, <2>3 DEF OutputInOrder
<1>4. CASE Connect
  <2>1. /\ outQ' = outQ \o Greeting("logs") \o Greeting("ssh") /\ wire' = <<>> /\ written' = written
        /\ wire = <<>> /\ UNCHANGED shown /\ thread # "done" /\ socket = "open"
    BY <1>4 DEF Connect, Stages
  <2>2. /\ Greeting("logs") \in Seq(Own) /\ Greeting("ssh") \in Seq(Own)
        /\ Greeting("logs") \in Seq(Lines) /\ Greeting("ssh") \in Seq(Lines)
    BY NoLast, OwnAreLines, SeqMonotonic DEF Own
  <2>3. Greeting("logs") \o Greeting("ssh") \in Seq(Own)
    BY <2>2, ConcatProperties
  <2>4. outQ' = outQ \o (Greeting("logs") \o Greeting("ssh"))
    BY <2>1, <2>2, Chain, LinesBehind
  <2>5. Complete(Sent', written) <=> Complete(Sent, written)
    BY <2>1, <2>3, <2>4, OwnBehind, Chain
  <2>6. Sent' \o <<>> = Sent'
    BY <2>1, <2>3, <2>4, OwnBehind
  <2> QED
    BY <2>1, <2>5, <2>6, Chain DEF OutputInOrder
<1>5. CASE ReadOutput
  <2>1. /\ UNCHANGED <<shown, written>> /\ thread # "done" /\ socket = "open" /\ wire # <<>>
        /\ outQ' = Append(outQ, Head(wire)) /\ wire' = Tail(wire)
    BY <1>5 DEF ReadOutput
  <2>2. shown \o Append(outQ, Head(wire)) \o Tail(wire) = shown \o outQ \o wire
    <3>1. shown \in Seq(Lines) /\ outQ \in Seq(Lines) /\ wire \in Seq(Lines)
      BY Chain
    <3> QED
      BY <2>1, <3>1, LinesBehind
  <2> QED
    BY <2>1, <2>2 DEF OutputInOrder, Sent
<1>6. CASE Write
  <2>1. /\ UNCHANGED <<shown, outQ>> /\ thread # "done" /\ socket = "open" /\ written < MaxOut
        /\ wire' = Append(wire, written + 1) /\ written' = written + 1
    BY <1>6 DEF Write
  <2>2. written + 1 \in Lines
    BY <2>1, OwnAreLines, Chain
  <2>3. Sent \o Append(wire, written + 1) = Append(Sent \o wire, written + 1)
    BY <2>2, Chain, AddLast
  <2>4. Complete(Append(Sent \o wire, written + 1), written + 1)
    BY <2>1, Chain, NextPiece DEF OutputInOrder
  <2>5. Sent' = Sent
    BY <2>1 DEF Sent
  <2> QED
    BY <2>1, <2>3, <2>4, <2>5
<1>7. CASE Refuse \/ Receive \/ Disconnected \/ Type \/ Leave \/ Exit \/ LoadFails \/ Pause \/ UNCHANGED vars
  <2>1. ~Refuse /\ ~Leave /\ ~LoadFails
    BY DEF Refuse, Leave, LoadFails
  <2> QED
    BY <1>1, <1>7, <2>1 DEF Receive, Disconnected, Type, Exit, Pause, vars, output
<1>8. CASE ConnectFails \/ Exhausted \/ Break
  BY <1>8, ThreadEnds, EndsTypes
<1>9. CASE NoInput \/ WriteInput \/ WriteToNobody
  <2>1. ~Ends /\ ~Finish(<<Error>>)
    BY EndsTypes DEF Finish
  <2>2. thread' = "read" /\ UNCHANGED <<wire, outQ>>
    BY <1>9, <2>1, ThreadEnds DEF NoInput, WriteInput, WriteToNobody
  <2>3. UNCHANGED <<shown, written>> /\ thread # "done" /\ socket = "open"
    BY <1>9 DEF NoInput, WriteInput, WriteToNobody
  <2> QED
    BY <1>1, <2>2, <2>3
<1> QED
  BY <1>2, <1>3, <1>4, <1>5, <1>6, <1>7, <1>8, <1>9 DEF Next, Handle, Work, Fails

-----------------------------------------------------------------------------
(* What the client has when it is over.                                    *)

\* Behind a first part of what is in order, the lines of Finish(last) account
\* for the rest: nothing is left on the wire, or the last line is an error.
LEMMA FinishAccounts ==
    ASSUME TypeOK, OutputInOrder, thread # "done", socket = "open",
           NEW last \in Seq({Hello, Error}), Finish(last),
           UNCHANGED <<kind, shown, written>>,
           kind # "ssh" => wire = <<>> \/ last = <<Error>>
    PROVE  Accounted'
<1>1. /\ last \o <<End>> \in Seq(Own) /\ outQ' = outQ \o (last \o <<End>>)
  BY FinishLines DEF Finish
<1>2. /\ Sent' = Sent \o (last \o <<End>>) /\ Sent' \in Seq(Lines)
      /\ Ordered(Sent) => Ordered(Sent')
      /\ Complete(Sent', written) <=> Complete(Sent, written)
  BY <1>1, OwnBehind, Chain
<1>3. Ordered(Sent) /\ Complete(Sent \o wire, written)
  BY Chain, OrderedPrefix DEF OutputInOrder, Complete
<1>4. Ordered(Sent')
  BY <1>2, <1>3
<1>5. wire = <<>> => Complete(Sent', written')
  BY <1>2, <1>3, Chain
<1>6. last = <<Error>> => \E i \in DOMAIN Sent' : Sent'[i] = Error
  <2> SUFFICES ASSUME last = <<Error>>
               PROVE  \E i \in DOMAIN Sent' : Sent'[i] = Error
    OBVIOUS
  <2> DEFINE e == last \o <<End>>
  <2>1. e \in Seq(Lines) /\ Len(e) = 2 /\ e[1] = Error
    BY <1>1, OwnAreLines, SeqMonotonic
  <2> HIDE DEF e
  <2>2. Sent' = Sent \o e
    BY <1>2 DEF e
  <2>3. /\ Len(Sent) \in Nat /\ Len(Sent \o e) = Len(Sent) + 2 /\ DOMAIN (Sent \o e) = 1 .. Len(Sent) + 2
        /\ (Sent \o e)[Len(Sent) + 1] = e[1]
    <3>1. Sent \in Seq(Lines)
      BY Chain
    <3>2. /\ Sent \o e \in Seq(Lines) /\ Len(Sent \o e) = Len(Sent) + Len(e) /\ Len(Sent) \in Nat
          /\ \A i \in 1 .. Len(Sent) + Len(e) :
                (Sent \o e)[i] = IF i <= Len(Sent) THEN Sent[i] ELSE e[i - Len(Sent)]
      BY <2>1, <3>1, ConcatProperties, LenProperties
    <3>3. DOMAIN (Sent \o e) = 1 .. Len(Sent \o e)
      BY <3>2, LenProperties
    <3> QED
      BY <2>1, <3>2, <3>3
  <2> QED
    BY <2>1, <2>2, <2>3
<1>7. Ordered(Sent)' /\ (kind # "ssh" => Complete(Sent, written)' \/ \E i \in DOMAIN Sent' : Sent'[i] = Error)
  BY <1>4, <1>5, <1>6 DEF Ordered, Complete
<1> QED
  BY <1>7 DEF Accounted, Ordered, Complete

LEMMA AccountedStep ==
    ASSUME TypeOK, Stages, LastLine, OutputInOrder, Accounted, [Next]_vars
    PROVE  Accounted'
<1> SUFFICES ASSUME thread' = "done", socket' = "open"
             PROVE  Accounted'
  BY DEF Accounted
<1>1. CASE UNCHANGED <<kind, written>> /\ Sent' = Sent /\ thread = "done" /\ socket = "open"
  BY <1>1 DEF Accounted, Ordered, Complete
<1>2. CASE Send
  <2>1. thread = "done" /\ socket = "open" /\ UNCHANGED <<kind, written>> /\ outQ # <<>>
    BY <1>2 DEF Send
  <2>2. CASE Head(outQ) # End
    <3>1. Sent' = Sent
      BY <1>2, <2>1, <2>2, SendKeeps
    <3> QED
      BY <1>1, <2>1, <3>1
  <2>3. CASE Head(outQ) = End
    <3>1. outQ' = Tail(outQ) /\ shown' = shown
      BY <1>2, <2>3 DEF Send
    <3>2. outQ = <<End>> /\ Tail(outQ) = <<>>
      <4>1. outQ \in Seq(Lines) /\ outQ # <<>>
        BY <2>1, Chain
      <4>2. Head(outQ) = outQ[1] /\ 1 \in DOMAIN outQ /\ Len(outQ) \in Nat
        BY <4>1, HeadTailProperties, EmptySeq, LenProperties
      <4>3. Len(outQ) = 1 /\ outQ[1] = End
        BY <2>3, <4>2 DEF LastLine
      <4>4. <<End>> \in Seq(Lines) /\ Len(<<End>>) = 1 /\ <<End>>[1] = End
        BY OwnAreLines DEF Own
      <4>5. \A i \in 1 .. Len(outQ) : outQ[i] = <<End>>[i]
        BY <4>3, <4>4
      <4>6. outQ = <<End>>
        BY <4>1, <4>3, <4>4, <4>5, SeqEqual
      <4> QED
        BY <4>6
    <3>3. Sent = shown \o <<End>> /\ Sent' = shown
      BY <3>1, <3>2, Chain, ConcatEmptySeq DEF Sent
    <3>4. <<End>> \in Seq(Own) /\ <<End>> \in Seq(Lines) /\ shown \in Seq(Lines)
      BY OwnAreLines, Chain DEF Own
    <3>5. /\ Ordered(Sent) => Ordered(shown)
          /\ Complete(Sent, written) => Complete(shown, written)
      BY <3>3, <3>4, OrderedPrefix, OwnLines, Chain
    <3>6. (\E i \in DOMAIN Sent : Sent[i] = Error) => \E i \in DOMAIN shown : shown[i] = Error
      <4>1. /\ Len(shown) \in Nat /\ DOMAIN shown = 1 .. Len(shown)
            /\ DOMAIN (shown \o <<End>>) = 1 .. Len(shown) + 1
            /\ \A i \in 1 .. Len(shown) : (shown \o <<End>>)[i] = shown[i]
            /\ (shown \o <<End>>)[Len(shown) + 1] = End
        <5>1. Len(<<End>>) = 1 /\ <<End>>[1] = End
          OBVIOUS
        <5> QED
          BY <3>4, <5>1, ConcatProperties, LenProperties
      <4> QED
        BY <3>3, <4>1, ConstantAssumption
    <3>7. Ordered(shown) /\ (kind # "ssh" => Complete(shown, written) \/ \E i \in DOMAIN shown : shown[i] = Error)
      BY <2>1, <3>5, <3>6 DEF Accounted
    <3> QED
      BY <2>1, <3>3, <3>7 DEF Accounted, Ordered, Complete
  <2> QED
    BY <2>2, <2>3
<1>3. CASE LoadFails
  <2>1. UNCHANGED <<kind, written>> /\ thread # "done" /\ socket = "open" /\ wire = <<>> /\ Sent' = Sent
    BY <1>3 DEF LoadFails, Stages, output, Sent
  <2>2. Complete(Sent, written)
    BY <2>1, Chain DEF OutputInOrder
  <2> QED
    BY <2>1, <2>2 DEF Accounted, Ordered, Complete
<1>4. CASE ConnectFails \/ Exhausted \/ Break \/ NoInput \/ WriteInput \/ WriteToNobody
  <2>1. UNCHANGED <<kind, shown, written>> /\ thread # "done" /\ socket = "open"
    BY <1>4 DEF ConnectFails, Exhausted, Break, NoInput, WriteInput, WriteToNobody
  <2>2. \E last \in Seq({Hello, Error}) :
            Finish(last) /\ (kind # "ssh" => wire = <<>> \/ last = <<Error>>)
    <3>1. CASE ConnectFails
      BY <3>1, NoLast DEF ConnectFails, Stages
    <3>2. CASE Exhausted
      BY <3>2, NoLast DEF Exhausted
    <3>3. CASE Break
      <4>1. (Finish(<<>>) /\ kind = "ssh") \/ Finish(<<Error>>)
        BY <3>3 DEF Break
      <4> QED
        BY <4>1, NoLast
    <3>4. CASE NoInput \/ WriteInput \/ WriteToNobody
      <4>1. NextRead => Finish(<<>>) /\ kind = "ssh"
        BY DEF NextRead
      <4>2. (Finish(<<>>) /\ kind = "ssh") \/ Finish(<<Error>>)
        BY <3>4, <4>1 DEF NoInput, WriteInput, WriteToNobody
      <4> QED
        BY <4>2, NoLast
    <3> QED
      BY <1>4, <3>1, <3>2, <3>3, <3>4
  <2>3. PICK last \in Seq({Hello, Error}) :
            Finish(last) /\ (kind # "ssh" => wire = <<>> \/ last = <<Error>>)
    BY <2>2
  <2> QED
    BY <2>1, <2>3, FinishAccounts
<1>5. CASE Refuse \/ Open \/ Receive \/ Disconnected \/ Type \/ Leave \/ Write \/ Exit \/ UNCHANGED vars
  <2>1. ~Refuse /\ ~Open /\ ~Leave /\ ~Write
    BY DEF Refuse, Open, Leave, Write, Stages
  <2>2. UNCHANGED <<kind, written, shown, outQ>> /\ thread = "done" /\ socket = "open"
    BY <1>5, <2>1 DEF Receive, Disconnected, Type, Exit, vars, output
  <2>3. Sent' = Sent
    BY <2>2 DEF Sent
  <2> QED
    BY <1>1, <2>2, <2>3
<1>6. CASE Connect \/ ReadOutput \/ Pause
  BY <1>6 DEF Connect, ReadOutput, Pause
<1> QED
  BY <1>2, <1>3, <1>4, <1>5, <1>6 DEF Next, Handle, Work, Fails

LEMMA ShownStep ==
    ASSUME TypeOK, Stages, LastLine, OutputInOrder, Accounted, Ordered(shown), [Next]_vars
    PROVE  Ordered(shown)'
<1>1. CASE UNCHANGED shown
  BY <1>1 DEF Ordered
<1>2. CASE Refuse
  <2>1. Ordered(<<Error>>)
    BY ConstantAssumption DEF Ordered
  <2>2. shown' = shown \/ shown' = <<Error>>
    BY <1>2 DEF Refuse
  <2> QED
    BY <2>1, <2>2 DEF Ordered
<1>3. CASE Send
  <2>1. CASE UNCHANGED shown
    BY <1>1, <2>1
  <2>2. CASE Head(outQ) # End /\ socket = "open"
    <3>1. Sent' = Sent
      BY <1>3, <2>2, SendKeeps
    <3>2. Ordered(Sent)
      BY <2>2, Chain, OrderedPrefix DEF OutputInOrder, Accounted, Complete
    <3>3. shown' \in Seq(Lines) /\ outQ' \in Seq(Lines)
      BY TypesStep, OwnAreLines, SeqMonotonic DEF TypeOK
    <3>4. Sent' = shown' \o outQ'
      BY DEF Sent
    <3>5. Ordered(shown')
      BY <3>1, <3>2, <3>3, <3>4, OrderedPrefix
    <3> QED
      BY <3>5 DEF Ordered
  <2> QED
    BY <1>3, <2>1, <2>2 DEF Send
<1>4. CASE Open \/ Receive \/ Disconnected \/ Type \/ Leave \/ Write \/ Exit \/ LoadFails \/ Pause \/ UNCHANGED vars
  BY <1>1, <1>4 DEF Open, Receive, Disconnected, Type, Leave, Write, Exit, LoadFails, Pause, vars, output
<1>5. CASE Connect \/ ReadOutput \/ ConnectFails \/ Exhausted \/ Break \/ NoInput \/ WriteInput \/ WriteToNobody
  BY <1>1, <1>5 DEF Connect, ReadOutput, ConnectFails, Exhausted, Break, NoInput, WriteInput, WriteToNobody
<1> QED
  BY <1>2, <1>3, <1>4, <1>5 DEF Next, Handle, Work, Fails

-----------------------------------------------------------------------------
(* The theorems.                                                           *)

LEMMA InitInv == Init => TerminalInv
<1> SUFFICES ASSUME Init
             PROVE  TerminalInv
  OBVIOUS
<1>1. TypeOK
  <2>1. /\ \A S : <<>> \in Seq(S)
        /\ 0 \in 0 .. MaxOut /\ 0 \in 0 .. MaxIn
    BY OwnAreLines, EmptySeq
  <2> QED
    BY <2>1 DEF Init, TypeOK
<1>2. Stages /\ LastLine /\ Accounted
  BY DEF Init, Stages, LastLine, Accounted
<1>3. thread # "done" /\ socket # "open" /\ Ordered(shown)
  BY DEF Init, Ordered
<1>4. got = UpTo(Len(got)) /\ got \o inQ \o sent = UpTo(typed)
  <2>1. UpTo(0) \in Seq(Nat) /\ Len(UpTo(0)) = 0
    BY Counting
  <2>2. UpTo(0) = <<>>
    BY <2>1, EmptySeq
  <2>3. got = <<>> /\ inQ = <<>> /\ sent = <<>> /\ typed = 0 /\ <<>> \o <<>> = <<>> /\ Len(<<>>) = 0
    BY DEF Init
  <2> QED
    BY <2>2, <2>3
<1>5. CutIsKnown
  BY DEF Init, CutIsKnown
<1> QED
  BY <1>1, <1>2, <1>3, <1>4, <1>5 DEF TerminalInv, InOrder, CutIsKnown

LEMMA InvStep ==
    ASSUME TerminalInv, [Next]_vars
    PROVE  TerminalInv'
<1>1. /\ TypeOK /\ Stages /\ LastLine /\ Accounted /\ OutputInOrder /\ InputInOrder
      /\ Ordered(shown) /\ got = UpTo(Len(got)) /\ CutIsKnown
  BY DEF TerminalInv, InOrder, OutputInOrder, InputInOrder, CutIsKnown, Sent
<1>2. TypeOK' /\ Stages' /\ LastLine' /\ Accounted'
  BY <1>1, TypesStep, StagesStep, LastLineStep, AccountedStep
<1>3. OutputInOrder' /\ Ordered(shown)'
  BY <1>1, OutputStep, ShownStep
<1>4. InputInOrder' /\ (got = UpTo(Len(got)))'
  BY <1>1, InputStep
<1>5. CutIsKnown'
  BY <1>1, <1>4, CutStep
<1> QED
  BY <1>2, <1>3, <1>4, <1>5 DEF TerminalInv, InOrder, OutputInOrder, InputInOrder, CutIsKnown, Sent

\* run_exec, run_logs, run_ssh: in every session no piece of output and no
\* message is lost, doubled or overtaken on its way between the client and the
\* remote end; a shell on a node may get a first part of a message only
\* (run_ssh ignores what chan.send returns), a shell in a pod gets it whole.
THEOREM TerminalInvariance == Spec => []TerminalInv
  BY InitInv, InvStep, PTL DEF Spec

\* run_exec, run_logs: a client that stays to the end has all that the remote
\* end wrote, or an error.
THEOREM EndIsReported == Spec => []Reported
<1>1. TerminalInv => Reported
  <2> SUFFICES ASSUME TerminalInv, kind # "ssh", sender = "done", socket = "open"
               PROVE  Complete(shown, written) \/ \E i \in DOMAIN shown : shown[i] = Error
    BY DEF Reported
  <2>1. thread = "done" /\ outQ = <<>>
    BY DEF TerminalInv, LastLine
  <2>2. Sent = shown
    BY <2>1, Chain, ConcatEmptySeq DEF Sent, TerminalInv
  <2> QED
    BY <2>1, <2>2 DEF TerminalInv, Accounted
<1> QED
  BY <1>1, TerminalInvariance, PTL

=============================================================================
