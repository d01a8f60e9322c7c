------------------------------ MODULE PxRegion ------------------------------
(***************************************************************************)
(* What the memory of a parallel context promises: a region.  Blocks are   *)
(* only ever added, and leave all together, when the context is rewound to *)
(* exactly the blocks it had when a snapshot was taken; the objects among  *)
(* those that leave which asked to be finalized are finalized in that same *)
(* step, each once, and no other is.                                       *)
(***************************************************************************)
VARIABLES
    live,     \* the blocks in use
    objects,  \* those of them that are to be finalized
    saved,    \* the blocks of the snapshot the running callback started from
    base,     \* the blocks of the startup snapshot
    busy,     \* a callback is running
    calls     \* the objects finalized by the last step

vars == <<live, objects, saved, base, busy, calls>>

Init == /\ live = {} /\ objects = {} /\ saved = {} /\ base = {}
        /\ busy = FALSE /\ calls = {}

(* New blocks, some of which may be objects to finalize.                   *)
Alloc == /\ live \subseteq live'
         /\ objects \subseteq objects'
         /\ objects' \ objects \subseteq live' \ live
         /\ calls' = {}
         /\ UNCHANGED <<saved, base, busy>>

Begin == /\ ~busy /\ busy' = TRUE
         /\ saved' = live
         /\ calls' = {}
         /\ UNCHANGED <<live, objects, base>>

Keep == /\ busy
        /\ saved' = live
        /\ calls' = {}
        /\ UNCHANGED <<live, objects, base, busy>>

(* The start of a connection: some blocks, which then become the base.     *)
Base == /\ ~busy
        /\ live \subseteq live'
        /\ base' = live'
        /\ calls' = {}
        /\ UNCHANGED <<objects, saved, busy>>

RewindTo(blocks) == /\ live' = live \cap blocks
                    /\ calls' = objects \ blocks
                    /\ objects' = objects \cap blocks
                    /\ busy' = FALSE

(* The end of a callback, and of a connection.  Both snapshots are of      *)
(* blocks still in use, so that the rewind is exact.                       *)
End == /\ busy
       /\ saved \subseteq live
       /\ RewindTo(saved)
       /\ saved' = {}
       /\ UNCHANGED base

Recycle == /\ base \subseteq live
           /\ RewindTo(base)
           /\ UNCHANGED <<saved, base>>

Next == Alloc \/ Begin \/ Keep \/ Base \/ End \/ Recycle

Spec == Init /\ [][Next]_vars

=============================================================================
