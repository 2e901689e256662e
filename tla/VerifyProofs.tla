---------------------------- MODULE VerifyProofs -----------------------------
(***************************************************************************)
(* Machine-checked proofs about module VerifyRepo, for any set of roots    *)
(* and any number of files.                                                *)
(***************************************************************************)
EXTENDS VerifyRepo, WellFoundedInduction, TLAPS

Before == {"dirs", "anchor", "listen"}
WithCache == {"client", "refresh", "latest", "targets", "remove"}
WithServer == WithCache \cup {"cache", "close", "join"}
After == {"remove", "close", "join", "idle"}

\* What Verify holds where, and what the goroutine of Serve has left of it.
Holding ==
  /\ at \in {"idle"} \cup Before \cup WithServer
  /\ at \in Before => listener = "none" /\ server = "none" /\ cache = "none"
  /\ at \in WithServer => server # "none"
  /\ at = "idle" => server \in {"none", "gone"}
  /\ server \in {"none", "starting", "serving", "gone"}
  /\ server = "none" => listener = "none"
  /\ server = "gone" => listener = "closed"
  /\ cache = "made" => at \in WithCache

\* The anchor is one that was given, or the newest.
AnchorFits == anchor = Given \/ (anchor \in roots /\ \A n \in roots : n <= anchor)

\* What is known on the way to a success.
Fetching ==
  /\ roots \subseteq Roots
  /\ at \notin After => tried = resolved /\ result = "none"
  /\ at \in {"dirs", "anchor"} => anchor \in {NoAnchor, Given}
  /\ at \in WithServer \cup {"listen"} /\ at \notin After => AnchorFits
  /\ result = "ok" => resolved = files /\ AnchorFits

-----------------------------------------------------------------------------
\* A set of root numbers has a newest one, and latestRoot takes it: no root of the
\* repository is newer (verify.go latestRoot).
LEMMA LatestIsNewest ==
  ASSUME roots \subseteq Roots, roots # {}
  PROVE  LatestRoot \in roots /\ \A n \in roots : n <= LatestRoot
<1> DEFINE Bounds == {m \in Nat : \A n \in roots : n <= m}
<1>1. roots \subseteq 1 .. MaxRoot /\ MaxRoot \in Nat
  BY VerifyAssumption
<1>2. MaxRoot \in Bounds
  BY <1>1
<1>3. PICK m \in Bounds : \A k \in Bounds : ~(<<k, m>> \in OpToRel(<, Nat))
  BY <1>2, WFMin, NatLessThanWellFounded
<1>4. \A k \in Bounds : ~(k < m)
  BY <1>3 DEF OpToRel
<1>5. m \in roots
  <2>1. SUFFICES ASSUME m \notin roots
                 PROVE  FALSE
    OBVIOUS
  <2>2. PICK n \in roots : TRUE
    OBVIOUS
  <2>3. m - 1 \in Nat
    BY <1>1, <2>1, <2>2
  <2>4. \A k \in roots : k <= m - 1
    BY <1>1, <2>1
  <2>5. m - 1 \in Bounds
    BY <2>3, <2>4
  <2> QED
    BY <1>4, <2>5, <2>3
<1>6. \E x \in roots : \A y \in roots : x >= y
  BY <1>1, <1>5
<1> QED
  BY <1>1, <1>6 DEF LatestRoot, Max

-----------------------------------------------------------------------------
LEMMA HoldingHolds == Spec => []Holding
<1> USE DEF Before, WithCache, WithServer
<1>1. Init => Holding
  BY DEF Init, Holding
<1>2. Holding /\ [Next]_vars => Holding'
  <2> SUFFICES ASSUME Holding, [Next]_vars
               PROVE  Holding'
    OBVIOUS
  <2> USE DEF Holding, found, held
  <2>1. CASE Call
    BY <2>1 DEF Call
  <2>2. CASE CheckDirs \/ TakeAnchor \/ Listen
    BY <2>2 DEF CheckDirs, TakeAnchor, Listen, Fails
  <2>3. CASE MakeCache \/ NewClient \/ Refresh \/ LatestRelease
    BY <2>3 DEF MakeCache, NewClient, Refresh, LatestRelease, FailsServing, FailsCached
  <2>4. CASE FetchTarget \/ Finish \/ RemoveCache
    BY <2>4 DEF FetchTarget, Finish, RemoveCache, FailsCached
  <2>5. CASE CloseServer \/ Join
    BY <2>5 DEF CloseServer, Join
  <2>6. CASE Serve \/ ServeEnds \/ CtxEnds
    BY <2>6 DEF Serve, ServeEnds, CtxEnds
  <2>7. CASE UNCHANGED vars
    BY <2>7 DEF vars
  <2> QED
    BY <2>1, <2>2, <2>3, <2>4, <2>5, <2>6, <2>7 DEF Next, CallStep
<1> QED
  BY <1>1, <1>2, PTL DEF Spec

\* However a verification ends, neither its listener, nor its goroutine, nor a cache
\* it has not tried to remove is left (verify.go Verify's deferred calls).
THEOREM CleansUp == Spec => []NothingLeftBehind
<1>1. Holding => NothingLeftBehind
  BY DEF Holding, NothingLeftBehind, WithCache
<1> QED
  BY <1>1, HoldingHolds, PTL

-----------------------------------------------------------------------------
LEMMA FetchingHolds == Spec => []Fetching
<1> USE DEF Before, WithCache, WithServer, After, NoAnchor, Given
<1>1. Init => Fetching
  BY DEF Init, Fetching
<1>2. Holding /\ Fetching /\ [Next]_vars => Fetching'
  <2> SUFFICES ASSUME Holding, Fetching, [Next]_vars
               PROVE  Fetching'
    OBVIOUS
  <2> USE DEF Fetching, AnchorFits, found, held
  <2>1. CASE Call
    BY <2>1 DEF Call
  <2>2. CASE CheckDirs
    BY <2>2 DEF CheckDirs, Fails
  <2>3. CASE TakeAnchor
    <3>1. CASE anchor = NoAnchor /\ roots # {} /\ at' = "listen" /\ anchor' = LatestRoot
      <4>1. LatestRoot \in roots /\ \A n \in roots : n <= LatestRoot
        BY <3>1, LatestIsNewest
      <4>2. UNCHANGED <<roots, files, tried, resolved, result>>
        BY <2>3, <3>1 DEF TakeAnchor, Fails
      <4> HIDE DEF Fetching
      <4>3. at = "anchor" /\ AnchorFits'
        BY <2>3, <3>1, <4>1, <4>2 DEF TakeAnchor
      <4> QED
        BY <3>1, <4>2, <4>3 DEF Fetching
    <3>2. CASE anchor = Given /\ at' = "listen"
      BY <2>3, <3>2 DEF TakeAnchor
    <3>3. CASE Fails
      BY <2>3, <3>3 DEF TakeAnchor, Fails
    <3> QED
      BY <2>3, <3>1, <3>2, <3>3 DEF TakeAnchor
  <2>4. CASE Listen \/ MakeCache
    BY <2>4 DEF Listen, MakeCache, Fails, FailsServing
  <2>5. CASE NewClient \/ Refresh \/ LatestRelease
    BY <2>5 DEF NewClient, Refresh, LatestRelease, FailsCached
  <2>6. CASE FetchTarget
    BY <2>6 DEF FetchTarget, FailsCached
  <2>7. CASE Finish
    BY <2>7 DEF Finish
  <2>8. CASE RemoveCache \/ CloseServer \/ Join
    BY <2>8 DEF RemoveCache, CloseServer, Join
  <2>9. CASE Serve \/ ServeEnds \/ CtxEnds
    BY <2>9 DEF Serve, ServeEnds, CtxEnds
  <2>10. CASE UNCHANGED vars
    BY <2>10 DEF vars
  <2> QED
    BY <2>1, <2>2, <2>3, <2>4, <2>5, <2>6, <2>7, <2>8, <2>9, <2>10 DEF Next, CallStep
<1> QED
  BY <1>1, <1>2, HoldingHolds, PTL DEF Spec

\* Whatever the release and the repository hold, a success means that each file
\* resolved, against the given or the newest root (verify.go VerifyResult).
THEOREM SuccessProved == Spec => []SuccessIsComplete
<1>1. Fetching => SuccessIsComplete
  BY DEF Fetching, AnchorFits, SuccessIsComplete
<1> QED
  BY <1>1, FetchingHolds, PTL

=============================================================================
