------------------------------ MODULE FrameFeed ------------------------------
(***************************************************************************)
(* What the frame queue promises its consumers, with neither threads nor   *)
(* locks: each name has a feed of frames.  While the name is subscribed,   *)
(* the feed grows by the frames due to it, one after the other, none       *)
(* skipped; a consumer takes the oldest; what a past subscription left is  *)
(* dropped from the front or goes to the next one.  A name may be spoilt,  *)
(* and then nothing is promised for it.  VideoQueue implements it.         *)
(***************************************************************************)
EXTENDS Naturals, Sequences

CONSTANTS
    Names,          \* subscription names
    Due(_, _),      \* whether a name is to get a frame
    MaxFrames       \* bound on the frames the camera delivers

VARIABLES
    pushed,         \* frames the camera has delivered
    on,             \* whether each name is subscribed
    last,           \* the frame up to which each subscription has been served
    waiting, taken, \* the frames of each name not yet taken, and taken
    spoilt          \* the names nothing is promised for

vars == <<pushed, on, last, waiting, taken, spoilt>>

FramesOf(n) == {taken[n][i] : i \in 1 .. Len(taken[n])} \cup
               {waiting[n][i] : i \in 1 .. Len(waiting[n])}

Init ==
    /\ pushed = 0 /\ on \in [Names -> BOOLEAN] /\ last = [n \in Names |-> 0]
    /\ waiting = [n \in Names |-> <<>>] /\ taken = [n \in Names |-> <<>>]
    /\ spoilt = {}

Push ==
    /\ pushed < MaxFrames /\ pushed' = pushed + 1
    /\ UNCHANGED <<on, last, waiting, taken, spoilt>>

\* A subscription begins after every frame the name has already been given.
Subscribe(n) ==
    /\ ~on[n] /\ n \notin spoilt /\ on' = [on EXCEPT ![n] = TRUE]
    /\ \E k \in 0 .. pushed :
        (\A f \in FramesOf(n) : f <= k) /\ last' = [last EXCEPT ![n] = k]
    /\ UNCHANGED <<pushed, waiting, taken, spoilt>>

\* The next frame that is due.
Deliver(n) ==
    /\ on[n]
    /\ \E f \in (last[n] + 1) .. pushed :
        /\ Due(n, f) /\ \A g \in (last[n] + 1) .. (f - 1) : ~Due(n, g)
        /\ waiting' = [waiting EXCEPT ![n] = Append(@, f)]
        /\ last' = [last EXCEPT ![n] = f]
    /\ UNCHANGED <<pushed, on, taken, spoilt>>

\* A consumer may be inside pop() when its subscription ends.
Take(n) ==
    /\ waiting[n] # <<>>
    /\ taken' = [taken EXCEPT ![n] = Append(@, Head(waiting[n]))]
    /\ waiting' = [waiting EXCEPT ![n] = Tail(@)]
    /\ UNCHANGED <<pushed, on, last, spoilt>>

Unsubscribe(n) ==
    /\ on[n] /\ on' = [on EXCEPT ![n] = FALSE] /\ last' = [last EXCEPT ![n] = 0]
    /\ UNCHANGED <<pushed, waiting, taken, spoilt>>

\* A removal drops what a subscription left, the oldest frame first.
Drop(n) ==
    /\ ~on[n] /\ waiting[n] # <<>>
    /\ waiting' = [waiting EXCEPT ![n] = Tail(@)]
    /\ UNCHANGED <<pushed, on, last, taken, spoilt>>

\* The name is given up for good.
Spoil(n) ==
    /\ n \notin spoilt /\ spoilt' = spoilt \cup {n}
    /\ on' = [on EXCEPT ![n] = FALSE] /\ last' = [last EXCEPT ![n] = 0]
    /\ waiting' = [waiting EXCEPT ![n] = <<>>] /\ taken' = [taken EXCEPT ![n] = <<>>]
    /\ UNCHANGED pushed

Next ==
    \/ Push
    \/ \E n \in Names : \/ Subscribe(n) \/ Deliver(n) \/ Take(n) \/ Unsubscribe(n)
                        \/ Drop(n) \/ Spoil(n)

Spec == Init /\ [][Next]_vars
=============================================================================
