------------------------------ MODULE MCBrowser ------------------------------
(* The controllers of the browser's page for TLC, side by side in one run:   *)
(* "subject" says from the initial state on which of them takes steps; the   *)
(* output of a pane is "pane", the connection "page".                        *)
EXTENDS TerminalOutput, UnifiedTransport

VARIABLE subject

browserVars == <<subject, page, pane>>

(* A fault and a signal, for what must not happen; either, for what must.    *)
Both == {<<1, 1>>}
Reconnection == INSTANCE UnifiedTransport WITH Troubles <- {<<0, 1>>, <<1, 0>>}

(* The output with a window that leaves room, as the page's limits do, for   *)
(* what must happen; the window of the run is as large as the queue, which   *)
(* overloads it.                                                             *)
Delivery == INSTANCE TerminalOutput WITH Window <- 1

BrowserInit ==
    /\ Init
    /\ \/ subject = "reconnection" /\ Reconnection!PageInit
       \/ subject \in {"transport", "output", "delivery"} /\ PageInit

BrowserNext ==
    /\ UNCHANGED subject
    /\ \/ /\ \/ subject = "transport" /\ PageNext
             \/ subject = "reconnection" /\ Reconnection!PageNext
          /\ UNCHANGED pane
       \/ /\ \/ subject = "output" /\ Next
             \/ subject = "delivery" /\ Delivery!Next
          /\ UNCHANGED page

(* Whatever the subject, the page runs a task as long as there is one.       *)
BrowserProgress ==
    \/ subject = "reconnection" /\ Reconnection!PageProgress /\ UNCHANGED pane
    \/ subject = "delivery" /\ Delivery!Progress /\ UNCHANGED page

BrowserSpec ==
    /\ BrowserInit /\ [][BrowserNext]_browserVars
    /\ WF_<<page, pane>>(BrowserProgress)
    /\ WF_page(subject = "reconnection" /\ Reconnection!DeferredTimer)

(* What must happen to the connection and to the screen, see there.          *)
PageReconnects ==
    <>[](subject = "reconnection" => Reconnection!NetworkThere)
    => <>[](subject = "reconnection" => Reconnection!Settling)
ScreenCatchesUp == <>[](subject = "delivery" => Delivery!Served)
=============================================================================
