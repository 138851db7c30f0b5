------------------------------- MODULE RunLedger -------------------------------
(***************************************************************************)
(* What a multi-run archive promises (docs/source/reference/backends): a   *)
(* set of live runs, each holding one upload, and a baseline of uploads    *)
(* that were folded into it.  Uploads move from a run to the baseline and  *)
(* stay there; a live run goes away only by being replaced, dropped or     *)
(* folded.                                                                 *)
(***************************************************************************)
CONSTANTS Uploads, Original

VARIABLES
    live,       \* live[r]: the upload of live run r
    folded      \* the uploads in the baseline

vars == << live, folded >>

Init ==
    /\ live = << >>
    /\ folded = {Original}

Held == folded \cup {live[r] : r \in DOMAIN live}

\* Runs rs are added, or replaced, with uploads the archive does not hold; the
\* other runs stay.
Append(rs) ==
    /\ rs # {}
    /\ DOMAIN live' = DOMAIN live \cup rs
    /\ \A r \in DOMAIN live' \ rs : live'[r] = live[r]
    /\ \A r \in rs : live'[r] \in Uploads \ Held
    /\ \A r, s \in rs : live'[r] = live'[s] => r = s
    /\ UNCHANGED folded

\* Runs rs and their coverage are gone.
Drop(rs) ==
    /\ rs # {}
    /\ live' = [r \in DOMAIN live \ rs |-> live[r]]
    /\ UNCHANGED folded

\* Runs rs are folded into the baseline.
Squash(rs) ==
    /\ rs # {}
    /\ live' = [r \in DOMAIN live \ rs |-> live[r]]
    /\ folded' = folded \cup {live[r] : r \in rs}

Next ==
    \/ \E rs \in SUBSET DOMAIN live' : Append(rs)
    \/ \E rs \in SUBSET DOMAIN live : Drop(rs)
    \/ \E rs \in SUBSET DOMAIN live : Squash(rs)

Spec == Init /\ [][Next]_vars

==============================================================================
