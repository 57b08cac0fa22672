---------------------------- MODULE FirmwareView ----------------------------
(***************************************************************************)
(* What port forwarding promises the firmware about its channels, as the   *)
(* firmware sees them (src/UNS/PortForwardingService, Channel.h): a        *)
(* channel is opened by either side, its window grows by what the firmware *)
(* grants and shrinks by the data it is sent, never below zero, and once   *)
(* LMS has asked to close a channel it sends no data for it, unless the    *)
(* firmware confirms the channel again.  One channel changes at a time,    *)
(* except when the session ends and takes them all.                        *)
(***************************************************************************)
EXTENDS Integers

CONSTANTS
    Fds,      \* the numbers under which LMS knows its channels
    Grants    \* window sizes the firmware grants

VARIABLE view \* number -> state of the channel and window left

Closed == [state |-> "closed", credit |-> 0]

ViewInit == view = [f \in Fds |-> Closed]

Set(f, state, credit) ==
    view' = [view EXCEPT ![f] = [state |-> state, credit |-> credit]]

\* LMS asks for a channel: it has no window until the firmware grants one.
Request(f) == view[f] = Closed /\ Set(f, "opening", 0)

\* The firmware opens a channel, with its first window.
Open(f) == view[f] = Closed /\ \E w \in Grants : Set(f, "open", w)

Confirm(f) ==
    view[f] # Closed /\ \E w \in Grants : Set(f, "open", view[f].credit + w)

Adjust(f) ==
    view[f] # Closed /\ \E w \in Grants : Set(f, view[f].state, view[f].credit + w)

Data(f) ==
    /\ view[f].state \in {"opening", "open"}
    /\ \E n \in 1 .. view[f].credit : Set(f, view[f].state, view[f].credit - n)

AskClose(f) == view[f] # Closed /\ Set(f, "closing", view[f].credit)

Close(f) == view' = [view EXCEPT ![f] = Closed]

SessionEnds == view' = [f \in Fds |-> Closed]

ViewNext ==
    \/ \E f \in Fds : \/ Request(f) \/ Open(f) \/ Confirm(f) \/ Adjust(f)
                      \/ Data(f) \/ AskClose(f) \/ Close(f)
    \/ SessionEnds

ViewSpec == ViewInit /\ [][ViewNext]_view
=============================================================================
