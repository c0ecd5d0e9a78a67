---------------------------- MODULE CreditStream ----------------------------
(***************************************************************************)
(* What a flow-controlled pane stream promises the browser: its output is  *)
(* applied in order and once, from the cursor the stream starts at, and no *)
(* more than Credit bytes of it are ever sent ahead of what is applied.    *)
(***************************************************************************)
EXTENDS Naturals

CONSTANTS
    Credit,     \* bytes that may be sent and not yet applied
    LastCursor  \* the stream's output is within 0..LastCursor

VARIABLES
    sent,       \* cursor through which output has been sent
    applied,    \* cursor through which the browser has applied it
    open        \* the browser still takes part

creditVars == <<sent, applied, open>>

Init == sent = 0 /\ applied = 0 /\ open = TRUE

\* The start cursor is announced before any output.
Start(from) ==
    /\ open /\ sent = 0 /\ applied = 0
    /\ sent' = from /\ applied' = from
    /\ UNCHANGED open

Send(through) ==
    /\ open
    /\ sent < through /\ through - applied <= Credit
    /\ sent' = through
    /\ UNCHANGED <<applied, open>>

Apply(through) ==
    /\ open
    /\ applied < through /\ through <= sent
    /\ applied' = through
    /\ UNCHANGED <<sent, open>>

\* The browser leaves; what is still sent to it is no longer accounted for.
End == open' = FALSE

Next ==
    \/ \E from \in 0..LastCursor : Start(from)
    \/ \E through \in 1..LastCursor : Send(through) \/ Apply(through)
    \/ End

Spec == Init /\ [][Next]_creditVars
=============================================================================
