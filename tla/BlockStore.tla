----------------------------- MODULE BlockStore -----------------------------
(***************************************************************************)
(* What the buffer cache promises its callers: a store of blocks, each of  *)
(* which has a content and, on the device, a stable copy that may lag      *)
(* behind but only ever moves to the content.  A block is held between     *)
(* Open and Close.                                                         *)
(***************************************************************************)
CONSTANTS Blocks, Data, MayFail

VARIABLES
    content,    \* what a reader of the block gets
    stable,     \* what is left of it after a power failure
    using,      \* "idle", or what the holder does with the block
    deferring,  \* writing at once is put off until the next Sync
    result      \* of the last operation

vars == <<content, stable, using, deferring, result>>

Init ==
    /\ stable \in [Blocks -> Data] /\ content = stable
    /\ using = [b \in Blocks |-> "idle"]
    /\ deferring = FALSE
    /\ result = "ok"

\* Any operation may write other blocks back to make room.
WriteBack == \A b \in Blocks : stable'[b] \in {stable[b], content[b]}

Open(b) ==
    /\ using[b] = "idle"
    /\ using' = [using EXCEPT ![b] = "read"]
    /\ result' = "ok"
    /\ UNCHANGED content

\* The holder is going to give the block new contents: the old ones may be gone.
OpenToRewrite(b) ==
    /\ using[b] = "idle"
    /\ using' = [using EXCEPT ![b] = "rewrite"]
    /\ \E d \in Data : content' = [content EXCEPT ![b] = d]
    /\ result' = "ok"

Refuse == result' = "EIO" /\ MayFail # {} /\ UNCHANGED <<content, using>>

\* Room for the kernel's own use is made (or is not).
Borrow == result' \in {"ok", "EIO"} /\ UNCHANGED <<content, using>>

Close(b, d, how) ==
    /\ using[b] # "idle"
    /\ using[b] = "rewrite" => how # "clean"
    /\ how = "clean" => d = content[b]
    /\ using' = [using EXCEPT ![b] = "idle"]
    /\ content' = [content EXCEPT ![b] = d]
    /\ \A c \in Blocks \ {b} : stable'[c] = stable[c]
    /\ \/ /\ result' = "ok" /\ stable'[b] \in {stable[b], d}
          /\ how = "now" /\ ~deferring => stable'[b] = d
       \/ result' = "EIO" /\ "write" \in MayFail /\ UNCHANGED stable
    /\ UNCHANGED deferring

Defer == deferring' = TRUE /\ UNCHANGED <<content, stable, using, result>>

Sync ==
    /\ WriteBack
    /\ MayFail = {} => \A b \in Blocks : using[b] # "rewrite" => stable'[b] = content[b]
    /\ deferring' = FALSE
    /\ UNCHANGED <<content, using, result>>

PowerFailure ==
    /\ content' = stable
    /\ using' = [b \in Blocks |-> "idle"]
    /\ deferring' = FALSE
    /\ result' = "ok"
    /\ UNCHANGED stable

Next ==
    \/ /\ (\E b \in Blocks : Open(b) \/ OpenToRewrite(b)) \/ Refuse \/ Borrow
       /\ WriteBack
       /\ UNCHANGED deferring
    \/ \E b \in Blocks, d \in Data, how \in {"clean", "later", "now"} : Close(b, d, how)
    \/ Defer \/ Sync \/ PowerFailure

Spec == Init /\ [][Next]_vars
=============================================================================
