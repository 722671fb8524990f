----------------------------- MODULE RoomNights -----------------------------
(***************************************************************************)
(* What the hotel promises about its calendar, said without reservations,  *)
(* quotes, holds or locks: a claimant (a booking, or a quote that is still *)
(* being considered) holds one room for consecutive nights or nothing, no  *)
(* night of a room is claimed twice, and the claim of a quote can be       *)
(* handed to the booking made from it without a moment in between.         *)
(***************************************************************************)
EXTENDS Naturals

CONSTANTS Claimants,  \* reservations and quotes
          Rooms,
          Stays       \* the date ranges a guest may ask for, [in, out)

VARIABLE claims       \* claimant -> the set of <<room, night>> it claims

Nights(rm, s) == {rm} \X (s.in .. (s.out - 1))

Claims == {{}} \cup {Nights(rm, s) : rm \in Rooms, s \in Stays}

TypeOK == claims \in [Claimants -> Claims]

Init == claims = [c \in Claimants |-> {}]

\* A claimant trades the nights it has for others (or for none) that nobody
\* else claims.
Exchange(c, new) ==
    /\ \A d \in Claimants \ {c} : claims[d] \cap new = {}
    /\ claims' = [claims EXCEPT ![c] = new]

\* A claimant hands all its nights to one that has none.
HandOver(c, d) ==
    /\ c # d
    /\ claims[d] = {}
    /\ claims' = [claims EXCEPT ![d] = claims[c], ![c] = {}]

Next == \/ \E c \in Claimants, new \in Claims : Exchange(c, new)
        \/ \E c, d \in Claimants : HandOver(c, d)

Spec == Init /\ [][Next]_claims

NoNightClaimedTwice ==
    \A c, d \in Claimants : c # d => claims[c] \cap claims[d] = {}
=============================================================================
