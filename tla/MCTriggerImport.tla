-------------------------- MODULE MCTriggerImport --------------------------
(***************************************************************************)
(* A small instance of TriggerImport: two accounts that share a vessel, a  *)
(* contact with and without an email, and a file that is rejected.         *)
(***************************************************************************)
EXTENDS TriggerImport, TLC

CONSTANTS a1, a2, v1, ann, mail, k1

Plain(ref) ==
    [account |-> ref, complete |-> TRUE, vesselCols |-> {}, imo |-> v1,
     contactCols |-> {}, name |-> ann, email |-> mail, key |-> k1]
WithVessel(row) == [row EXCEPT !.vesselCols = VesselColumns]
WithContact(row, cols) == [row EXCEPT !.contactCols = cols]

FullContact == ContactColumns
NamedContact == {"contact_name", "contact_role"}

MCFiles ==
    {<<WithContact(WithVessel(Plain(a1)), NamedContact), WithVessel(Plain(a2))>>,
     <<WithContact(Plain(a1), FullContact), WithContact(WithVessel(Plain(a1)), NamedContact)>>,
     <<Plain(a2), [Plain(a1) EXCEPT !.vesselCols = {"vessel_imo"}]>>}

Symmetric == Permutations(Importers)
=============================================================================
