----------------------------- MODULE MCRRWLock -----------------------------
(***************************************************************************)
(* Two threads on a plain rwlock, or on one inside a struct lock.          *)
(***************************************************************************)
EXTENDS RRWLock

MCProcs == {11, 12}
MCProcs3 == {11, 12, 13}
\* Flags passed by callers: none, RW_NOSLEEP, RW_INTR and RW_SLEEPFAIL|RW_INTR.
MCFlags == {{}, {"NOSLEEP"}, {"INTR"}, {"INTR", "SLEEPFAIL"}}
MCRequests == {{"SHARED"}, {"DRAIN"}, {"EXCLUSIVE", "NOWAIT"}, {"EXCLUSIVE", "RECURSEFAIL"}}
=============================================================================
