---------------------------- MODULE BtAliasProofs ----------------------------
(***************************************************************************)
(* The file of the alias cache is never wrong: for any set of paired       *)
(* devices and any number of kills and failing calls.                      *)
(***************************************************************************)
EXTENDS BtAlias, TLAPS

\* Only the name of a device that was found connected is ever on its way to the
\* file: FallBack changes the name and goes round persistBTAlias.
BtAliasInv ==
    /\ TypeOK
    /\ FileConfirmed
    /\ pc \in {"persist", "write"} => value \in seen

LEMMA BtAliasInit == Init => BtAliasInv
<1>. SUFFICES ASSUME Init PROVE BtAliasInv
  OBVIOUS
<1>. QED
  BY BtAliasAssumption DEF Init, BtAliasInv, TypeOK, FileConfirmed, None, NoFile, Empty

LEMMA BtAliasNext == BtAliasInv /\ [Next]_vars => BtAliasInv'
<1>. SUFFICES ASSUME BtAliasInv, [Next]_vars PROVE BtAliasInv'
  OBVIOUS
<1>. USE BtAliasAssumption DEF BtAliasInv, TypeOK, FileConfirmed, refresh
<1>1. CASE StartUp
  <2>1. value' \in Devices \cup {None}
    BY <1>1 DEF StartUp, Load, None, NoFile, Empty
  <2>. QED
    BY <1>1, <2>1 DEF StartUp
<1>2. CASE ListDevices
  BY <1>2 DEF ListDevices
<1>3. ASSUME NEW d \in Devices, GetPropsFails(d) PROVE BtAliasInv'
  BY <1>3 DEF GetPropsFails, Fault
<1>4. ASSUME NEW d \in Devices, FindConnected(d) PROVE BtAliasInv'
  BY <1>4 DEF FindConnected
<1>5. ASSUME NEW d \in Devices, PassBy(d) PROVE BtAliasInv'
  BY <1>5 DEF PassBy
<1>6. CASE FallBack
  BY <1>6 DEF FallBack
<1>7. CASE Truncate
  BY <1>7 DEF Truncate
<1>8. CASE Write
  BY <1>8 DEF Write
<1>9. CASE PersistFails
  BY <1>9 DEF PersistFails, Fault
<1>10. CASE Kill
  BY <1>10 DEF Kill, Fault
<1>11. ASSUME NEW d \in Devices, Connection(d) PROVE BtAliasInv'
  BY <1>11 DEF Connection
<1>12. CASE UNCHANGED vars
  BY <1>12 DEF vars
<1>. QED
  BY <1>1, <1>2, <1>3, <1>4, <1>5, <1>6, <1>7, <1>8, <1>9, <1>10, <1>11, <1>12 DEF Next, Scan

LEMMA BtAliasInvariant == Spec => []BtAliasInv
  BY BtAliasInit, BtAliasNext, PTL DEF Spec

\* The name is always that of a paired device or "": never an empty one read
\* back from a file that a kill left empty, as Load does not take it.
THEOREM BtAliasTypeCorrect == Spec => []TypeOK
<1>1. BtAliasInv => TypeOK
  BY DEF BtAliasInv
<1>. QED
  BY BtAliasInvariant, <1>1, PTL

\* The file holds nothing but the name of a device that has been connected,
\* wherever a kill or a failing call cuts a refresh or a write short.
THEOREM FileIsConfirmed == Spec => []FileConfirmed
<1>1. BtAliasInv => FileConfirmed
  BY DEF BtAliasInv
<1>. QED
  BY BtAliasInvariant, <1>1, PTL
=============================================================================
