------------------------------- MODULE MCLocks ------------------------------
(***************************************************************************)
(* Locks for TLC.  The tasks other than Idle are interchangeable, so it is *)
(* enough to look at those that have names in the order of their           *)
(* priorities.  Unlike TLC's SYMMETRY this is sound for liveness too: each *)
(* behaviour left out is one that stays in with its tasks renamed.         *)
(***************************************************************************)
EXTENDS Locks, SequencesExt

Names == SetToSeq(Task \ {Idle})

NamedByPriority ==
    \A i, j \in DOMAIN Names :
       i < j /\ {Names[i], Names[j]} \subseteq Handle
         => own[Names[i]] <= own[Names[j]]

MCLocksSpec ==
    LocksInit /\ [][LocksNext /\ NamedByPriority']_allVars /\ LocksFairness
=============================================================================
