----------------------------- MODULE ChainQueue -----------------------------
(***************************************************************************)
(* What a virtqueue promises: the driver offers descriptor chains, the     *)
(* device takes them one at a time in the order they were offered and      *)
(* hands each one back once, and the driver collects them in that order.   *)
(***************************************************************************)
EXTENDS Integers, Sequences

CONSTANT Heads      \* chains, named by their head descriptor

VARIABLES
    free,           \* chains the driver owns
    staged,         \* written by the driver, not yet visible to the device
    offered,        \* visible to the device, not yet taken
    taken,          \* the chain the device works on: a sequence of 0 or 1
    returned        \* handed back, not yet collected

cqVars == <<free, staged, offered, taken, returned>>

Init ==
    /\ free = Heads
    /\ staged = << >>
    /\ offered = << >>
    /\ taken = << >>
    /\ returned = << >>

Stage(h) ==
    /\ h \in free
    /\ free' = free \ {h}
    /\ staged' = Append(staged, h)
    /\ UNCHANGED <<offered, taken, returned>>

Offer ==
    /\ staged # << >>
    /\ offered' = offered \o staged
    /\ staged' = << >>
    /\ UNCHANGED <<free, taken, returned>>

Take ==
    /\ taken = << >>
    /\ offered # << >>
    /\ taken' = <<Head(offered)>>
    /\ offered' = Tail(offered)
    /\ UNCHANGED <<free, staged, returned>>

Return ==
    /\ taken # << >>
    /\ returned' = returned \o taken
    /\ taken' = << >>
    /\ UNCHANGED <<free, staged, offered>>

Collect ==
    /\ returned # << >>
    /\ free' = free \cup {Head(returned)}
    /\ returned' = Tail(returned)
    /\ UNCHANGED <<staged, offered, taken>>

Next == (\E h \in Heads : Stage(h)) \/ Offer \/ Take \/ Return \/ Collect

Spec == Init /\ [][Next]_cqVars
=============================================================================
