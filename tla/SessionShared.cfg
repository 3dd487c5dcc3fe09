\* Two tabs, two accounts, two requests at once.
SPECIFICATION Spec
CONSTANTS
    Accounts = {ann, bob}
    None = None
    Tabs = {left, right}
    Calls = {c1, c2}
INVARIANTS SessionInv ActsAsShown
PROPERTIES KeptSignedIn CallsEnd
