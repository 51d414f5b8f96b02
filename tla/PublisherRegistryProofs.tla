----------------------- MODULE PublisherRegistryProofs ----------------------
(***************************************************************************)
(* Proofs about PublisherRegistry, for any number of calls, topics and     *)
(* bounds: the lock and the pending advertisement; the cached entries and  *)
(* the outcome of a call; leases, the two pruning steps and the limits; and*)
(* that a publish call implements NativeOperation.                         *)
(***************************************************************************)
EXTENDS PublisherRegistry, FiniteSetTheorems, TLAPS

-----------------------------------------------------------------------------
(* Type correctness.                                                       *)

\* What release() writes is well typed.
LEMMA ReleaseTyped ==
  ASSUME TypeOK, NEW c \in Calls, NEW flag \in BOOLEAN, Release(c, flag)
  PROVE  /\ entries' \in [Topics -> Calls \cup {None}]
         /\ active_calls' \in [Calls -> Nat]
         /\ committed' \in [Calls -> BOOLEAN]
         /\ UNCHANGED <<publisher, master_generation, mutex>>
<1> DEFINE e == selected[c]
<1>1. active_calls' \in [Calls -> Nat]
  <2>1. CASE e \in Calls
    BY <2>1 DEF Release, TypeOK
  <2>2. CASE e \notin Calls
    BY <2>2, Zenon DEF Release, TypeOK
  <2> QED
    BY <2>1, <2>2, Zenon
<1>2. committed' \in [Calls -> BOOLEAN]
  <2>1. CASE e \in Calls
    BY <2>1, Zenon DEF Release, TypeOK
  <2>2. CASE e \notin Calls
    BY <2>2, Zenon DEF Release, TypeOK
  <2> QED
    BY <2>1, <2>2, Zenon
<1>3. entries' \in [Topics -> Calls \cup {None}]
  BY Zenon DEF Release, TypeOK
<1> QED
  BY <1>1, <1>2, <1>3, Zenon DEF Release

\* Every state of the registry, its calls and its environment is well typed.
THEOREM TypeCorrect == Spec => []TypeOK
<1> USE DEF Outcomes, Steps, NoEntries
<1>1. Init => TypeOK
  BY DEF Init, TypeOK
<1>2. TypeOK /\ [Next]_vars => TypeOK'
  <2> SUFFICES ASSUME TypeOK, [Next]_vars PROVE TypeOK'
    BY Zenon
  <2> USE CallsAssumption, RequestsAssumption, PidsAssumption,
          InterruptsAssumption DEF TypeOK
  <2>1. ASSUME NEW c \in Calls, Begin(c) PROVE TypeOK'
    BY <2>1, Zenon DEF Begin, Goto, registryVars, envVars, obsVars
  <2>2. ASSUME NEW c \in Calls, FetchGeneration(c) PROVE TypeOK'
    <3>1. ~Allowed(c) => interrupt[c] \in Outcomes
      BY Zenon DEF Allowed
    <3>2. outcome' \in [Calls -> Outcomes] /\ pc' \in [Calls -> Steps]
      BY <2>2, <3>1, SMTT(20) DEF FetchGeneration, Finish, Goto
    <3>3. current' \in [Calls -> Pids \cup {0}]
      BY <2>2 DEF FetchGeneration
    <3> QED
      BY <2>2, <3>2, <3>3, Zenon DEF FetchGeneration, registryVars, envVars, obsVars
  <2>3. ASSUME NEW c \in Calls, BindGeneration(c) PROVE TypeOK'
    BY <2>3, SMTT(20) DEF BindGeneration, Finish, Goto, envVars, obsVars
  <2>4. ASSUME NEW c \in Calls, DecodeFails(c) PROVE TypeOK'
    BY <2>4, Zenon DEF DecodeFails, Finish, Goto, registryVars, envVars, obsVars
  <2>5. ASSUME NEW c \in Calls, LeaseCached(c) PROVE TypeOK'
    <3>1. request[c].topic \in Topics
      BY Zenon
    <3>2. entries[request[c].topic] \in Calls
      BY <2>5, <3>1 DEF LeaseCached
    <3>3. active_calls' \in [Calls -> Nat] /\ selected' \in [Calls -> Calls \cup {None}]
      BY <2>5, <3>2 DEF LeaseCached
    <3>4. outcome' \in [Calls -> Outcomes] /\ pc' \in [Calls -> Steps]
      BY <2>5, ZenonT(30) DEF LeaseCached, Finish, Goto
    <3> QED
      BY <2>5, <3>3, <3>4, Zenon DEF LeaseCached, envVars, obsVars
  <2>6. ASSUME NEW c \in Calls, LeaseMiss(c) PROVE TypeOK'
    BY <2>6, SMTT(30) DEF LeaseMiss, Finish, Goto, envVars, obsVars
  <2>7. ASSUME NEW c \in Calls, Advertise(c) PROVE TypeOK'
    <3>1. request[c].topic \in Topics
      BY Zenon
    <3>2. entries' \in [Topics -> Calls \cup {None}] /\ mutex' \in Calls \cup {None}
      BY <2>7, <3>1 DEF Advertise
    <3>3. /\ active_calls' \in [Calls -> Nat]
          /\ selected' \in [Calls -> Calls \cup {None}]
          /\ publisher' \in [Calls -> {"none", "valid", "invalid"}]
      BY <2>7, SMTT(20) DEF Advertise
    <3>4. outcome' \in [Calls -> Outcomes] /\ pc' \in [Calls -> Steps]
      BY <2>7, SMTT(30) DEF Advertise, Finish, Goto
    <3> QED
      BY <2>7, <3>2, <3>3, <3>4, Zenon DEF Advertise, envVars, obsVars
  <2>8. ASSUME NEW c \in Calls, PassChecks(c) PROVE TypeOK'
    BY <2>8, Zenon DEF PassChecks, Goto, registryVars, envVars, obsVars
  <2>9. ASSUME NEW c \in Calls, FailChecks(c) PROVE TypeOK'
    <3>1. ~Allowed(c) => interrupt[c] \in Outcomes
      BY Zenon DEF Allowed
    <3>2. outcome' \in [Calls -> Outcomes] /\ pc' \in [Calls -> Steps]
      BY <2>9, <3>1, SMTT(20) DEF FailChecks, Finish, Goto
    <3>3. Release(c, FALSE)
      BY <2>9, Zenon DEF FailChecks
    <3> QED
      BY <2>9, <3>2, <3>3, ReleaseTyped, ZenonT(30) DEF FailChecks, envVars, obsVars
  <2>10. ASSUME NEW c \in Calls, Commit(c) PROVE TypeOK'
    <3>1. Release(c, TRUE)
      BY <2>10, Zenon DEF Commit
    <3> QED
      BY <2>10, <3>1, ReleaseTyped, Zenon DEF Commit, Goto, envVars, obsVars
  <2>11. ASSUME NEW c \in Calls, CheckContinuation(c) PROVE TypeOK'
    BY <2>11 DEF CheckContinuation, Finish, Goto, registryVars, envVars, obsVars
  <2>12. ASSUME NEW c \in Calls, Dispatch(c) PROVE TypeOK'
    <3>1. native' \in [Calls -> Nat] /\ late' \in [Calls -> Nat]
      BY <2>12, SMTT(30) DEF Dispatch, Enqueue, obsVars
    <3>2. outcome' \in [Calls -> Outcomes] /\ pc' \in [Calls -> Steps]
      BY <2>12, ZenonT(30) DEF Dispatch, Finish, Goto
    <3> QED
      BY <2>12, <3>1, <3>2, Zenon DEF Dispatch, registryVars, envVars
  <2>13. ASSUME NEW c \in Calls, AfterDispatch(c) PROVE TypeOK'
    BY <2>13, SMTT(20) DEF AfterDispatch, Finish, Goto, registryVars, envVars, obsVars
  <2>14. ASSUME NEW c \in Calls, CompletionFails(c) PROVE TypeOK'
    BY <2>14, Zenon DEF CompletionFails, Finish, Goto, registryVars, envVars, obsVars
  <2>15. ASSUME NEW c \in Calls, Interrupt(c) PROVE TypeOK'
    BY <2>15 DEF Interrupt, registryVars, callVars, obsVars
  <2>16. CASE ProbeFetch
    BY <2>16, Zenon DEF ProbeFetch, registryVars, callVars, envVars, obsVars
  <2>17. CASE ProbeBind
    BY <2>17, Zenon DEF ProbeBind, callVars, envVars, obsVars
  <2>18. CASE Clear
    BY <2>18, Zenon DEF Clear, callVars, envVars, obsVars
  <2>19. CASE MasterChanges
    BY <2>19, Zenon DEF MasterChanges, registryVars, callVars, obsVars
  <2>20. CASE RosShutdown
    BY <2>20, Zenon DEF RosShutdown, registryVars, callVars, obsVars
  <2>21. CASE UNCHANGED vars
    BY <2>21, Zenon DEF vars, registryVars, callVars, envVars, obsVars
  <2> QED
    BY <2>1, <2>2, <2>3, <2>4, <2>5, <2>6, <2>7, <2>8, <2>9, <2>10, <2>11,
       <2>12, <2>13, <2>14, <2>15, <2>16, <2>17, <2>18, <2>19, <2>20, <2>21, ZenonT(30)
    DEF Next, CallStep
<1>3. QED
  BY <1>1, <1>2, PTL DEF Spec

-----------------------------------------------------------------------------
(* mutex_ is held exactly by the call that advertises.                     *)

MutexInv == \A c \in Calls : pc[c] = "advertise" <=> mutex = c

\* At most one call is inside the critical section of a cache miss.
THEOREM MutexHeld == Spec => []MutexInv
<1>1. Init => MutexInv
  BY CallsAssumption DEF Init, MutexInv
<1>2. TypeOK /\ MutexInv /\ [Next]_vars => MutexInv'
  <2> SUFFICES ASSUME TypeOK, MutexInv, [Next]_vars PROVE MutexInv'
    BY Zenon
  <2> USE CallsAssumption DEF TypeOK, MutexInv, registryVars, callVars
  <2>1. ASSUME NEW c \in Calls, Begin(c) PROVE MutexInv'
    BY <2>1, Zenon DEF Begin, Finish, Goto
  <2>2. ASSUME NEW c \in Calls, FetchGeneration(c) PROVE MutexInv'
    BY <2>2 DEF FetchGeneration, Finish, Goto
  <2>3. ASSUME NEW c \in Calls, BindGeneration(c) PROVE MutexInv'
    BY <2>3, Zenon DEF BindGeneration, Finish, Goto
  <2>4. ASSUME NEW c \in Calls, DecodeFails(c) PROVE MutexInv'
    BY <2>4, Zenon DEF DecodeFails, Finish, Goto
  <2>5. ASSUME NEW c \in Calls, LeaseCached(c) PROVE MutexInv'
    BY <2>5, Zenon DEF LeaseCached, Finish, Goto
  <2>6. ASSUME NEW c \in Calls, LeaseMiss(c) PROVE MutexInv'
    BY <2>6 DEF LeaseMiss, Finish, Goto
  <2>7. ASSUME NEW c \in Calls, Advertise(c) PROVE MutexInv'
    BY <2>7 DEF Advertise, Finish, Goto
  <2>8. ASSUME NEW c \in Calls, PassChecks(c) PROVE MutexInv'
    BY <2>8, Zenon DEF PassChecks, Finish, Goto
  <2>9. ASSUME NEW c \in Calls, FailChecks(c) PROVE MutexInv'
    BY <2>9, Zenon DEF FailChecks, Release, Finish, Goto
  <2>10. ASSUME NEW c \in Calls, Commit(c) PROVE MutexInv'
    BY <2>10, Zenon DEF Commit, Release, Goto
  <2>11. ASSUME NEW c \in Calls, CheckContinuation(c) PROVE MutexInv'
    BY <2>11 DEF CheckContinuation, Finish, Goto
  <2>12. ASSUME NEW c \in Calls, Dispatch(c) PROVE MutexInv'
    BY <2>12 DEF Dispatch, Finish, Goto
  <2>13. ASSUME NEW c \in Calls, AfterDispatch(c) PROVE MutexInv'
    BY <2>13 DEF AfterDispatch, Finish, Goto
  <2>14. ASSUME NEW c \in Calls, CompletionFails(c) PROVE MutexInv'
    BY <2>14, Zenon DEF CompletionFails, Finish, Goto
  <2>15. ASSUME NEW c \in Calls, Interrupt(c) PROVE MutexInv'
    BY <2>15, Zenon DEF Interrupt, Finish, Goto
  <2>16. CASE ProbeFetch
    BY <2>16, Zenon DEF ProbeFetch
  <2>17. CASE ProbeBind
    BY <2>17, Zenon DEF ProbeBind
  <2>18. CASE Clear
    BY <2>18, Zenon DEF Clear
  <2>19. CASE MasterChanges
    BY <2>19, Zenon DEF MasterChanges
  <2>20. CASE RosShutdown
    BY <2>20, Zenon DEF RosShutdown
  <2>21. CASE UNCHANGED vars
    BY <2>21, Zenon DEF vars
  <2> QED
    BY <2>1, <2>2, <2>3, <2>4, <2>5, <2>6, <2>7, <2>8, <2>9, <2>10, <2>11,
       <2>12, <2>13, <2>14, <2>15, <2>16, <2>17, <2>18, <2>19, <2>20, <2>21, ZenonT(30)
    DEF Next, CallStep
<1>3. QED
  BY <1>1, <1>2, TypeCorrect, PTL DEF Spec

-----------------------------------------------------------------------------
(* The size of the cache.                                                  *)

Cached == {t \in Topics : entries[t] # None}

\* The cache is finite.
LEMMA SizeIsNat == IsFiniteSet(Cached) /\ Size \in Nat
BY TopicsAssumption, FS_Subset, FS_CardinalityType, Cached \subseteq Topics, Zenon
DEF Size, Cached

\* The size is one of the cache alone.
LEMMA SizeUnchanged == ASSUME UNCHANGED entries PROVE Size' = Size
BY Zenon DEF Size

\* A cache that was dropped is empty.
LEMMA SizeEmpty == ASSUME entries' = NoEntries PROVE Size' = 0
<1>1. {t \in Topics : entries'[t] # None} = {}
  BY Zenon DEF NoEntries
<1> QED
  BY <1>1, FS_EmptySet, Zenon DEF Size

\* Caching an entry for a topic that had none takes one more slot.
LEMMA SizeInsert ==
  ASSUME TypeOK, NEW c \in Calls, NEW t \in Topics, entries[t] = None,
         entries' = [entries EXCEPT ![t] = c]
  PROVE  Size' = Size + 1
<1>1. {u \in Topics : entries'[u] # None} = Cached \cup {t} /\ t \notin Cached
  BY CallsAssumption DEF TypeOK, Cached
<1> QED
  BY <1>1, SizeIsNat, FS_AddElement, Zenon DEF Size, Cached

\* Dropping one entry takes no more slots than before.
LEMMA SizeShrinks ==
  ASSUME TypeOK, NEW t,
         entries' \in {entries, [entries EXCEPT ![t] = None]}
  PROVE  Size' \in Nat /\ Size' <= Size
<1>1. {u \in Topics : entries'[u] # None} \subseteq Cached
  BY Zenon DEF TypeOK, Cached
<1> QED
  BY <1>1, SizeIsNat, FS_Subset, FS_CardinalityType, Zenon DEF Size, Cached

\* The bound holds because a call that advertises found a free slot for a
\* topic without an entry, and holds mutex_ until its entry is in.
CapacityInv ==
  /\ CapacityRespected
  /\ \A c \in Calls : pc[c] = "advertise" =>
       Size < MaxPublishers /\ entries[request[c].topic] = None

\* CapacityInv is invariant: the free slot that a cache miss found is still
\* free when its entry is inserted.
THEOREM CapacityStructure == Spec => []CapacityInv
<1>1. Init => CapacityInv
  <2> SUFFICES ASSUME Init PROVE CapacityInv
    BY Zenon
  <2>1. {t \in Topics : entries[t] # None} = {}
    BY Zenon DEF Init, NoEntries
  <2>2. Size = 0
    BY <2>1, FS_EmptySet, Zenon DEF Size
  <2> QED
    BY <2>2, MaxPublishersAssumption DEF Init, CapacityInv, CapacityRespected
<1>2. TypeOK /\ MutexInv /\ CapacityInv /\ [Next]_vars => CapacityInv'
  <2> SUFFICES ASSUME TypeOK, MutexInv, CapacityInv, [Next]_vars
               PROVE  CapacityInv'
    BY Zenon
  <2> USE CallsAssumption, RequestsAssumption, MaxPublishersAssumption
      DEF TypeOK, CapacityInv, CapacityRespected, registryVars, callVars
  <2>1. ASSUME NEW c \in Calls, Begin(c) PROVE CapacityInv'
    BY <2>1, SizeUnchanged, Zenon DEF Begin, Finish, Goto
  <2>2. ASSUME NEW c \in Calls, FetchGeneration(c) PROVE CapacityInv'
    BY <2>2, SizeUnchanged, Zenon DEF FetchGeneration, Finish, Goto
  <2>3. ASSUME NEW c \in Calls, BindGeneration(c) PROVE CapacityInv'
    <3>1. CASE UNCHANGED entries
      BY <2>3, <3>1, SizeUnchanged, Zenon DEF BindGeneration, Finish, Goto
    <3>2. CASE entries' = NoEntries
      BY <2>3, <3>2, SizeEmpty DEF BindGeneration, Finish, Goto, NoEntries
    <3> QED
      BY <2>3, <3>1, <3>2, Zenon DEF BindGeneration
  <2>4. ASSUME NEW c \in Calls, DecodeFails(c) PROVE CapacityInv'
    BY <2>4, SizeUnchanged, Zenon DEF DecodeFails, Finish, Goto
  <2>5. ASSUME NEW c \in Calls, LeaseCached(c) PROVE CapacityInv'
    BY <2>5, SizeUnchanged DEF LeaseCached, Finish, Goto
  <2>6. ASSUME NEW c \in Calls, LeaseMiss(c) PROVE CapacityInv'
    BY <2>6, SizeUnchanged, SizeIsNat DEF LeaseMiss, Finish, Goto
  <2>7. ASSUME NEW c \in Calls, Advertise(c) PROVE CapacityInv'
    <3>1. /\ Size < MaxPublishers
          /\ entries[request[c].topic] = None
          /\ request[c].topic \in Topics
      BY <2>7, Zenon DEF Advertise
    <3>2. CASE UNCHANGED entries
      BY <2>7, <3>2, SizeUnchanged DEF Advertise, Finish, Goto
    <3>3. CASE entries' = [entries EXCEPT ![request[c].topic] = c]
      <4>1. Size' = Size + 1
        BY <3>1, <3>3, SizeInsert, Zenon
      <4>2. \A d \in Calls : pc'[d] # "advertise"
        BY <2>7 DEF Advertise, MutexInv, Finish, Goto
      <4> QED
        BY <3>1, <4>1, <4>2, SizeIsNat
    <3> QED
      BY <2>7, <3>2, <3>3, Zenon DEF Advertise
  <2>8. ASSUME NEW c \in Calls, PassChecks(c) PROVE CapacityInv'
    BY <2>8, SizeUnchanged, Zenon DEF PassChecks, Finish, Goto
  <2>9. ASSUME NEW c \in Calls, FailChecks(c) PROVE CapacityInv'
    <3>1. entries' \in {entries, [entries EXCEPT ![request[c].topic] = None]}
      BY <2>9, Zenon DEF FailChecks, Release
    <3>3. Size' <= Size /\ Size' \in Nat
      BY <3>1, SizeShrinks
    <3>2. \A d \in Calls : pc'[d] # "advertise"
      BY <2>9, Zenon DEF FailChecks, Release, MutexInv, Finish, Goto
    <3> QED
      BY <3>2, <3>3, SizeIsNat
  <2>10. ASSUME NEW c \in Calls, Commit(c) PROVE CapacityInv'
    <3>1. entries' \in {entries, [entries EXCEPT ![request[c].topic] = None]}
      BY <2>10, Zenon DEF Commit, Release
    <3>3. Size' <= Size /\ Size' \in Nat
      BY <3>1, SizeShrinks
    <3>2. \A d \in Calls : pc'[d] # "advertise"
      BY <2>10, Zenon DEF Commit, Release, MutexInv, Finish, Goto
    <3> QED
      BY <3>2, <3>3, SizeIsNat
  <2>11. ASSUME NEW c \in Calls, CheckContinuation(c) PROVE CapacityInv'
    BY <2>11, SizeUnchanged, Zenon DEF CheckContinuation, Finish, Goto
  <2>12. ASSUME NEW c \in Calls, Dispatch(c) PROVE CapacityInv'
    BY <2>12, SizeUnchanged, Zenon DEF Dispatch, Finish, Goto
  <2>13. ASSUME NEW c \in Calls, AfterDispatch(c) PROVE CapacityInv'
    BY <2>13, SizeUnchanged, Zenon DEF AfterDispatch, Finish, Goto
  <2>14. ASSUME NEW c \in Calls, CompletionFails(c) PROVE CapacityInv'
    BY <2>14, SizeUnchanged, Zenon DEF CompletionFails, Finish, Goto
  <2>15. ASSUME NEW c \in Calls, Interrupt(c) PROVE CapacityInv'
    BY <2>15, SizeUnchanged, Zenon DEF Interrupt, Finish, Goto
  <2>16. CASE ProbeFetch
    BY <2>16, SizeUnchanged, Zenon DEF ProbeFetch, Finish, Goto
  <2>17. CASE ProbeBind
    BY <2>17, SizeUnchanged, Zenon DEF ProbeBind, Finish, Goto
  <2>18. CASE Clear
    BY <2>18, SizeEmpty DEF Clear, NoEntries
  <2>19. CASE MasterChanges
    BY <2>19, SizeUnchanged, Zenon DEF MasterChanges, Finish, Goto
  <2>20. CASE RosShutdown
    BY <2>20, SizeUnchanged, Zenon DEF RosShutdown, Finish, Goto
  <2>21. CASE UNCHANGED vars
    BY <2>21, SizeUnchanged, Zenon DEF vars, Finish, Goto
  <2> QED
    BY <2>1, <2>2, <2>3, <2>4, <2>5, <2>6, <2>7, <2>8, <2>9, <2>10, <2>11,
       <2>12, <2>13, <2>14, <2>15, <2>16, <2>17, <2>18, <2>19, <2>20, <2>21, ZenonT(30)
    DEF Next, CallStep
<1> QED
  BY <1>1, <1>2, TypeCorrect, MutexHeld, PTL DEF Spec

\* The cache never holds more than maximum_publishers_ entries.
THEOREM Capacity == Spec => []CapacityRespected
<1>1. CapacityInv => CapacityRespected
  BY Zenon DEF CapacityInv
<1> QED
  BY <1>1, CapacityStructure, PTL

-----------------------------------------------------------------------------
(* Entries, and who refers to them.                                        *)

\* Steps before a call has an entry.
Before == {"idle", "start", "bind", "decode", "advertise"}

\* A call gets an entry with its lease and never another one; whoever is
\* selected or cached was advertised, for its topic and configuration; only a
\* valid handle crosses the boundary.
EntryInv ==
  /\ \A c \in Calls : pc[c] \in Before =>
       selected[c] = None /\ publisher[c] = "none"
  /\ \A c \in Calls : Leased(c) => selected[c] # None
  /\ \A c \in Calls : pc[c] = "commit" => publisher[selected[c]] = "valid"
  /\ \A c \in Calls : selected[c] # None =>
       /\ publisher[selected[c]] # "none"
       /\ request[c].topic = request[selected[c]].topic
       /\ request[c].config = request[selected[c]].config
  /\ \A t \in Topics : entries[t] # None =>
       publisher[entries[t]] # "none" /\ request[entries[t]].topic = t
  /\ \A e \in Calls : committed[e] => publisher[e] = "valid"


\* The structure of the cache: EntryInv holds throughout.
THEOREM EntryStructure == Spec => []EntryInv
<1> USE DEF Before, Leased
<1>1. Init => EntryInv
  BY DEF Init, EntryInv, NoEntries
<1>2. TypeOK /\ EntryInv /\ [Next]_vars => EntryInv'
  <2> SUFFICES ASSUME TypeOK, EntryInv, [Next]_vars PROVE EntryInv'
    BY Zenon
  <2> USE CallsAssumption, RequestsAssumption
      DEF TypeOK, EntryInv, registryVars, callVars
  <2>1. ASSUME NEW c \in Calls, Begin(c) PROVE EntryInv'
    BY <2>1 DEF Begin, Finish, Goto
  <2>2. ASSUME NEW c \in Calls, FetchGeneration(c) PROVE EntryInv'
    BY <2>2 DEF FetchGeneration, Finish, Goto
  <2>3. ASSUME NEW c \in Calls, BindGeneration(c) PROVE EntryInv'
    BY <2>3 DEF BindGeneration, Finish, Goto, NoEntries
  <2>4. ASSUME NEW c \in Calls, DecodeFails(c) PROVE EntryInv'
    BY <2>4, SMTT(20) DEF DecodeFails, Finish, Goto
  <2>5. ASSUME NEW c \in Calls, LeaseCached(c) PROVE EntryInv'
    BY <2>5, SMTT(30) DEF LeaseCached, Finish, Goto
  <2>6. ASSUME NEW c \in Calls, LeaseMiss(c) PROVE EntryInv'
    BY <2>6, SMTT(20) DEF LeaseMiss, Finish, Goto
  <2>7. ASSUME NEW c \in Calls, Advertise(c) PROVE EntryInv'
    <3>1. CASE UNCHANGED <<entries, active_calls, publisher, selected>>
      BY <2>7, <3>1, SMTT(20) DEF Advertise, Finish, Goto
    <3>2. ASSUME NEW handle \in {"valid", "invalid"},
                 publisher' = [publisher EXCEPT ![c] = handle],
                 selected' = [selected EXCEPT ![c] = c],
                 entries' = [entries EXCEPT ![request[c].topic] = c],
                 Goto(c, "check")
          PROVE  EntryInv'
      <4> USE <3>2
      <4>1. pc[c] = "advertise" /\ publisher[c] = "none" /\ selected[c] = None
        BY <2>7, Zenon DEF Advertise
      <4>2. UNCHANGED <<request, committed>>
        BY <2>7, Zenon DEF Advertise
      <4>3. \A e \in Calls : e # c => publisher'[e] = publisher[e]
        OBVIOUS
      <4>4. publisher'[c] # "none"
        OBVIOUS
      <4>5. \A d \in Calls : selected'[d] = IF d = c THEN c ELSE selected[d]
        OBVIOUS
      <4>6. \A d \in Calls : pc'[d] = IF d = c THEN "check" ELSE pc[d]
        BY DEF Goto
      <4>7. \A d \in Calls : selected'[d] # None =>
              /\ publisher'[selected'[d]] # "none"
              /\ request'[d].topic = request'[selected'[d]].topic
              /\ request'[d].config = request'[selected'[d]].config
        BY <4>2, <4>3, <4>4, <4>5
      <4>8. \A t \in Topics : entries'[t] # None =>
              publisher'[entries'[t]] # "none" /\ request'[entries'[t]].topic = t
        BY <4>2, <4>3, <4>4
      <4>9. \A e \in Calls : committed'[e] => publisher'[e] = "valid"
        BY <4>1, <4>2, <4>3, SMTT(20)
      <4>10. \A d \in Calls : pc'[d] = "commit" => publisher'[selected'[d]] = "valid"
        BY <4>1, <4>3, <4>5, <4>6, SMTT(30)
      <4> QED
        BY <4>3, <4>5, <4>6, <4>7, <4>8, <4>9, <4>10, SMTT(30)
    <3> QED
      BY <2>7, <3>1, <3>2, Zenon DEF Advertise
  <2>8. ASSUME NEW c \in Calls, PassChecks(c) PROVE EntryInv'
    BY <2>8, SMTT(20) DEF PassChecks, Finish, Goto
  <2>9. ASSUME NEW c \in Calls, FailChecks(c) PROVE EntryInv'
    BY <2>9, SMTT(30) DEF FailChecks, Release, Finish, Goto
  <2>10. ASSUME NEW c \in Calls, Commit(c) PROVE EntryInv'
    BY <2>10 DEF Commit, Release, Goto
  <2>11. ASSUME NEW c \in Calls, CheckContinuation(c) PROVE EntryInv'
    BY <2>11 DEF CheckContinuation, Finish, Goto
  <2>12. ASSUME NEW c \in Calls, Dispatch(c) PROVE EntryInv'
    BY <2>12 DEF Dispatch, Finish, Goto
  <2>13. ASSUME NEW c \in Calls, AfterDispatch(c) PROVE EntryInv'
    BY <2>13 DEF AfterDispatch, Finish, Goto
  <2>14. ASSUME NEW c \in Calls, CompletionFails(c) PROVE EntryInv'
    BY <2>14 DEF CompletionFails, Finish, Goto
  <2>15. ASSUME NEW c \in Calls, Interrupt(c) PROVE EntryInv'
    BY <2>15, Zenon DEF Interrupt, Finish, Goto
  <2>16. CASE ProbeFetch
    BY <2>16, Zenon DEF ProbeFetch
  <2>17. CASE ProbeBind
    BY <2>17, Zenon DEF ProbeBind
  <2>18. CASE Clear
    BY <2>18, Zenon DEF Clear, NoEntries
  <2>19. CASE MasterChanges
    BY <2>19, Zenon DEF MasterChanges
  <2>20. CASE RosShutdown
    BY <2>20, Zenon DEF RosShutdown
  <2>21. CASE UNCHANGED vars
    BY <2>21, Zenon DEF vars
  <2> QED
    BY <2>1, <2>2, <2>3, <2>4, <2>5, <2>6, <2>7, <2>8, <2>9, <2>10, <2>11,
       <2>12, <2>13, <2>14, <2>15, <2>16, <2>17, <2>18, <2>19, <2>20, <2>21, ZenonT(30)
    DEF Next, CallStep
<1>3. QED
  BY <1>1, <1>2, TypeCorrect, PTL DEF Spec

\* Past refreshMasterGeneration a call has read the generation that is bound.
GenerationInv ==
  /\ \A c \in Calls : pc[c] = "bind" => current[c] # 0
  /\ \A c \in Calls :
       pc[c] \in {"decode", "advertise"} \/ publisher[c] # "none" =>
         master_generation # 0 /\ current[c] = master_generation


\* Every call past refreshMasterGeneration works for the bound generation.
THEOREM GenerationBound == Spec => []GenerationInv
<1>1. Init => GenerationInv
  BY DEF Init, GenerationInv
<1>2. TypeOK /\ EntryInv /\ GenerationInv /\ [Next]_vars => GenerationInv'
  <2> SUFFICES ASSUME TypeOK, EntryInv, GenerationInv, [Next]_vars PROVE GenerationInv'
    BY Zenon
  <2>0. \A c \in Calls : pc[c] \in Before => publisher[c] = "none"
    BY Zenon DEF EntryInv
  <2> USE <2>0, CallsAssumption, PidsAssumption
      DEF TypeOK, GenerationInv, Before, registryVars, callVars
  <2>1. ASSUME NEW c \in Calls, Begin(c) PROVE GenerationInv'
    BY <2>1, Zenon DEF Begin, Finish, Goto
  <2>2. ASSUME NEW c \in Calls, FetchGeneration(c) PROVE GenerationInv'
    BY <2>2 DEF FetchGeneration, Finish, Goto
  <2>3. ASSUME NEW c \in Calls, BindGeneration(c) PROVE GenerationInv'
    BY <2>3, SMTT(20) DEF BindGeneration, Finish, Goto
  <2>4. ASSUME NEW c \in Calls, DecodeFails(c) PROVE GenerationInv'
    BY <2>4, Zenon DEF DecodeFails, Finish, Goto
  <2>5. ASSUME NEW c \in Calls, LeaseCached(c) PROVE GenerationInv'
    BY <2>5 DEF LeaseCached, Finish, Goto
  <2>6. ASSUME NEW c \in Calls, LeaseMiss(c) PROVE GenerationInv'
    BY <2>6 DEF LeaseMiss, Finish, Goto
  <2>7. ASSUME NEW c \in Calls, Advertise(c) PROVE GenerationInv'
    BY <2>7 DEF Advertise, Finish, Goto
  <2>8. ASSUME NEW c \in Calls, PassChecks(c) PROVE GenerationInv'
    BY <2>8, Zenon DEF PassChecks, Finish, Goto
  <2>9. ASSUME NEW c \in Calls, FailChecks(c) PROVE GenerationInv'
    BY <2>9, Zenon DEF FailChecks, Release, Finish, Goto
  <2>10. ASSUME NEW c \in Calls, Commit(c) PROVE GenerationInv'
    BY <2>10, Zenon DEF Commit, Release, Goto
  <2>11. ASSUME NEW c \in Calls, CheckContinuation(c) PROVE GenerationInv'
    BY <2>11 DEF CheckContinuation, Finish, Goto
  <2>12. ASSUME NEW c \in Calls, Dispatch(c) PROVE GenerationInv'
    BY <2>12 DEF Dispatch, Finish, Goto
  <2>13. ASSUME NEW c \in Calls, AfterDispatch(c) PROVE GenerationInv'
    BY <2>13, ZenonT(30) DEF AfterDispatch, Finish, Goto
  <2>14. ASSUME NEW c \in Calls, CompletionFails(c) PROVE GenerationInv'
    BY <2>14, Zenon DEF CompletionFails, Finish, Goto
  <2>15. ASSUME NEW c \in Calls, Interrupt(c) PROVE GenerationInv'
    BY <2>15, Zenon DEF Interrupt, Finish, Goto
  <2>16. CASE ProbeFetch
    BY <2>16, Zenon DEF ProbeFetch
  <2>17. CASE ProbeBind
    BY <2>17, Zenon DEF ProbeBind, ProbeResult
  <2>18. CASE Clear
    BY <2>18, Zenon DEF Clear
  <2>19. CASE MasterChanges
    BY <2>19, Zenon DEF MasterChanges
  <2>20. CASE RosShutdown
    BY <2>20, Zenon DEF RosShutdown
  <2>21. CASE UNCHANGED vars
    BY <2>21, Zenon DEF vars
  <2> QED
    BY <2>1, <2>2, <2>3, <2>4, <2>5, <2>6, <2>7, <2>8, <2>9, <2>10, <2>11,
       <2>12, <2>13, <2>14, <2>15, <2>16, <2>17, <2>18, <2>19, <2>20, <2>21, ZenonT(30)
    DEF Next, CallStep
<1>3. QED
  BY <1>1, <1>2, TypeCorrect, EntryStructure, PTL DEF Spec

\* Calls that share an entry agree on topic and configuration, and no cached
\* entry belongs to another master generation.
THEOREM Agreement == Spec => []EntriesAgree
<1>1. TypeOK /\ EntryInv /\ GenerationInv => EntriesAgree
  BY DEF TypeOK, EntryInv, GenerationInv, EntriesAgree
<1>2. QED
  BY <1>1, TypeCorrect, EntryStructure, GenerationBound, PTL

-----------------------------------------------------------------------------
(* The class of the outcome.                                               *)

\* What the outcome, the messages sent and the interruption of a call are at
\* each of its steps.
OutcomeInv ==
  /\ OutcomeHonest
  /\ InterruptStops
  /\ \A c \in Calls :
       /\ pc[c] = "done" <=> outcome[c] # "none"
       /\ pc[c] \in Before \cup {"check", "commit"} => native[c] = 0
       /\ pc[c] \in {"publish", "dispatch"} => native[c] < request[c].count
       /\ native[c] <= request[c].count
       /\ late[c] > 0 => interrupt[c] # "none"
       /\ pc[c] \notin {"after", "done"} => late[c] = 0

\* OutcomeInv for one call.
OutcomeAt(c) ==
  /\ outcome[c] \notin {"none", "ok", "uncertain"} => native[c] = 0
  /\ outcome[c] = "ok" => native[c] = request[c].count
  /\ late[c] <= 1
  /\ outcome[c] = "ok" => late[c] = 0
  /\ pc[c] = "done" <=> outcome[c] # "none"
  /\ pc[c] \in Before \cup {"check", "commit"} => native[c] = 0
  /\ pc[c] \in {"publish", "dispatch"} => native[c] < request[c].count
  /\ native[c] <= request[c].count
  /\ late[c] > 0 => interrupt[c] # "none"
  /\ pc[c] \notin {"after", "done"} => late[c] = 0

\* OutcomeInv says nothing that relates two calls.
LEMMA OutcomePointwise == OutcomeInv <=> \A c \in Calls : OutcomeAt(c)
BY Zenon DEF OutcomeInv, OutcomeHonest, InterruptStops, OutcomeAt

\* The same in the next state.
LEMMA OutcomePointwiseNext == OutcomeInv' <=> \A c \in Calls : OutcomeAt(c)'
BY Zenon DEF OutcomeInv, OutcomeHonest, InterruptStops, OutcomeAt

\* A step of c leaves the outcome of every other call as it is.
LEMMA OutcomeMoved ==
  ASSUME OutcomeInv, NEW c \in Calls, UNCHANGED <<request, interrupt>>,
         \A d \in Calls \ {c} : /\ pc'[d] = pc[d] /\ outcome'[d] = outcome[d]
                                /\ native'[d] = native[d] /\ late'[d] = late[d],
         OutcomeAt(c)'
  PROVE  OutcomeInv'
<1>1. ASSUME NEW d \in Calls, d # c PROVE OutcomeAt(d)'
  <2>1. OutcomeAt(d)
    BY OutcomePointwise, Zenon
  <2>2. /\ pc'[d] = pc[d] /\ outcome'[d] = outcome[d]
        /\ native'[d] = native[d] /\ late'[d] = late[d]
    BY <1>1, Zenon
  <2> QED
    BY <2>1, <2>2, Zenon DEF OutcomeAt
<1> QED
  BY <1>1, OutcomePointwiseNext, Zenon

\* A step of c that moves pc and, when it ends the call, the outcome.
LEMMA OutcomeSteps ==
  ASSUME TypeOK, OutcomeInv, NEW c \in Calls,
         UNCHANGED <<request, interrupt, native, late>>,
         NEW step, pc' = [pc EXCEPT ![c] = step],
         NEW class, outcome' = [outcome EXCEPT ![c] = class],
         OutcomeAt(c)'
  PROVE  OutcomeInv'
<1>1. \A d \in Calls \ {c} : pc'[d] = pc[d] /\ outcome'[d] = outcome[d]
  BY Zenon DEF TypeOK
<1> QED
  BY <1>1, OutcomeMoved, Zenon

\* Before the boundary a call may move to any step or end with any class
\* other than success.
LEMMA OutcomeEarly ==
  ASSUME TypeOK, OutcomeInv, NEW c \in Calls,
         pc[c] \in Before \cup {"check", "commit"},
         UNCHANGED <<request, interrupt, native, late>>,
         \/ /\ \E step \in Steps \ {"done"} : pc' = [pc EXCEPT ![c] = step]
            /\ outcome' = outcome
         \/ /\ pc' = [pc EXCEPT ![c] = "done"]
            /\ \E class \in Outcomes \ {"none", "ok"} :
                 outcome' = [outcome EXCEPT ![c] = class]
  PROVE  OutcomeInv'
<1>1. OutcomeAt(c)
  BY OutcomePointwise, Zenon
<1>2. pc \in [Calls -> Steps] /\ outcome \in [Calls -> Outcomes]
  BY Zenon DEF TypeOK
<1>3. request[c].count \in Nat \ {0} /\ late[c] \in Nat
  BY RequestsAssumption, Zenon DEF TypeOK
<1>4. native[c] = 0 /\ outcome[c] = "none" /\ late[c] = 0
  BY <1>1, Zenon DEF OutcomeAt, Before
<1>5. CASE outcome' = outcome
  <2>1. PICK step \in Steps \ {"done"} : pc' = [pc EXCEPT ![c] = step]
    BY <1>5, <1>2, <1>4, Zenon DEF Steps
  <2>2. outcome' = [outcome EXCEPT ![c] = "none"]
    BY <1>2, <1>4, <1>5, Zenon
  <2>3. pc'[c] = step /\ outcome'[c] = "none"
    BY <1>2, <1>4, <1>5, <2>1, Zenon
  <2>4. OutcomeAt(c)'
    BY <1>3, <1>4, <2>1, <2>3, SMT DEF OutcomeAt
  <2> QED
    BY <2>1, <2>2, <2>4, OutcomeSteps, Zenon
<1>6. CASE /\ pc' = [pc EXCEPT ![c] = "done"]
           /\ \E class \in Outcomes \ {"none", "ok"} :
                outcome' = [outcome EXCEPT ![c] = class]
  <2>1. PICK class \in Outcomes \ {"none", "ok"} :
               outcome' = [outcome EXCEPT ![c] = class]
    BY <1>6, Zenon
  <2>2. pc'[c] = "done" /\ outcome'[c] = class
    BY <1>2, <1>6, <2>1, Zenon
  <2>3. OutcomeAt(c)'
    BY <1>3, <1>4, <2>1, <2>2, SMT DEF OutcomeAt, Before
  <2> QED
    BY <1>6, <2>1, <2>3, OutcomeSteps, Zenon
<1> QED
  BY <1>5, <1>6, Zenon

\* Behind the boundary every failure is uncertain.
LEMMA OutcomeUncertain ==
  ASSUME TypeOK, OutcomeInv, NEW c \in Calls, Finish(c, "uncertain"),
         UNCHANGED <<request, interrupt, native, late>>
  PROVE  OutcomeInv'
<1>1. OutcomeAt(c)
  BY OutcomePointwise, Zenon
<1>2. pc' = [pc EXCEPT ![c] = "done"] /\ outcome' = [outcome EXCEPT ![c] = "uncertain"]
  BY Zenon DEF Finish, Goto
<1>3. pc'[c] = "done" /\ outcome'[c] = "uncertain"
  BY <1>2, Zenon DEF TypeOK
<1>4. OutcomeAt(c)'
  BY <1>1, <1>3, Zenon DEF OutcomeAt, Before
<1> QED
  BY <1>2, <1>4, OutcomeSteps, Zenon

\* A step that leaves what the outcome depends on as it is.
LEMMA OutcomeSame ==
  ASSUME OutcomeInv, UNCHANGED <<request, interrupt, native, late, pc, outcome>>
  PROVE  OutcomeInv'
BY Zenon DEF OutcomeInv, OutcomeHonest, InterruptStops

\* OutcomeInv is invariant: an outcome is set once, by the step that ends the
\* call, and the messages sent agree with the step the call is at.
THEOREM OutcomeStructure == Spec => []OutcomeInv
<1>1. Init => OutcomeInv
  BY RequestsAssumption DEF Init, OutcomeInv, OutcomeHonest, InterruptStops, Before
<1>2. TypeOK /\ OutcomeInv /\ [Next]_vars => OutcomeInv'
  <2> SUFFICES ASSUME TypeOK, OutcomeInv, [Next]_vars PROVE OutcomeInv'
    BY Zenon
  <2>0. /\ pc \in [Calls -> Steps] /\ outcome \in [Calls -> Outcomes]
        /\ native \in [Calls -> Nat] /\ late \in [Calls -> Nat]
        /\ interrupt \in [Calls -> Interrupts \cup {"none"}]
        /\ \A c \in Calls : request[c].count \in Nat \ {0}
    BY RequestsAssumption, Zenon DEF TypeOK
  <2>w. \A c \in Calls : OutcomeAt(c)
    BY OutcomePointwise, Zenon
  <2>i. \A c \in Calls : ~Allowed(c) => interrupt[c] \in Outcomes \ {"none", "ok"}
    <3>1. ASSUME NEW c \in Calls, interrupt[c] # "none"
          PROVE  interrupt[c] \in {"cancelled", "deadline"}
      <4>1. interrupt[c] \in Interrupts \cup {"none"}
        BY <2>0, Zenon
      <4> QED
        BY <3>1, <4>1, InterruptsAssumption, Zenon
    <3>2. {"cancelled", "deadline"} \subseteq Outcomes \ {"none", "ok"}
      BY Zenon DEF Outcomes
    <3> QED
      BY <3>1, <3>2, Zenon DEF Allowed
  <2>e. /\ {"transient", "permanent", "resource-exhausted"} \subseteq Outcomes \ {"none", "ok"}
        /\ {"start", "bind", "decode", "advertise", "check", "commit", "publish"}
             \subseteq Steps \ {"done"}
        /\ {"idle", "start", "bind", "decode", "advertise"} \subseteq Before
    BY Zenon DEF Outcomes, Steps, Before
  <2> HIDE DEF OutcomeInv, TypeOK, Before, Steps, Outcomes
  <2> USE DEF Finish, Goto
  <2>1. ASSUME NEW c \in Calls, Begin(c) PROVE OutcomeInv'
    <3>1. /\ pc[c] \in Before \cup {"check", "commit"}
          /\ UNCHANGED <<request, interrupt, native, late>>
      BY <2>1, <2>e, Zenon DEF Begin, envVars, obsVars
    <3>2. \/ /\ \E step \in Steps \ {"done"} : pc' = [pc EXCEPT ![c] = step]
             /\ outcome' = outcome
          \/ /\ pc' = [pc EXCEPT ![c] = "done"]
             /\ \E class \in Outcomes \ {"none", "ok"} :
                  outcome' = [outcome EXCEPT ![c] = class]
      BY <2>1, <2>e, <2>i, Zenon DEF Begin
    <3> QED
      BY <3>1, <3>2, OutcomeEarly, Zenon
  <2>2. ASSUME NEW c \in Calls, FetchGeneration(c) PROVE OutcomeInv'
    <3>1. /\ pc[c] \in Before \cup {"check", "commit"}
          /\ UNCHANGED <<request, interrupt, native, late>>
      BY <2>2, <2>e, Zenon DEF FetchGeneration, envVars, obsVars
    <3>2. \/ /\ \E step \in Steps \ {"done"} : pc' = [pc EXCEPT ![c] = step]
             /\ outcome' = outcome
          \/ /\ pc' = [pc EXCEPT ![c] = "done"]
             /\ \E class \in Outcomes \ {"none", "ok"} :
                  outcome' = [outcome EXCEPT ![c] = class]
      BY <2>2, <2>e, <2>i, Zenon DEF FetchGeneration
    <3> QED
      BY <3>1, <3>2, OutcomeEarly, Zenon
  <2>3. ASSUME NEW c \in Calls, BindGeneration(c) PROVE OutcomeInv'
    <3>1. /\ pc[c] \in Before \cup {"check", "commit"}
          /\ UNCHANGED <<request, interrupt, native, late>>
      BY <2>3, <2>e, Zenon DEF BindGeneration, envVars, obsVars
    <3>2. \/ /\ \E step \in Steps \ {"done"} : pc' = [pc EXCEPT ![c] = step]
             /\ outcome' = outcome
          \/ /\ pc' = [pc EXCEPT ![c] = "done"]
             /\ \E class \in Outcomes \ {"none", "ok"} :
                  outcome' = [outcome EXCEPT ![c] = class]
      BY <2>3, <2>e, <2>i, Zenon DEF BindGeneration
    <3> QED
      BY <3>1, <3>2, OutcomeEarly, Zenon
  <2>4. ASSUME NEW c \in Calls, DecodeFails(c) PROVE OutcomeInv'
    <3>1. /\ pc[c] \in Before \cup {"check", "commit"}
          /\ UNCHANGED <<request, interrupt, native, late>>
      BY <2>4, <2>e, Zenon DEF DecodeFails, envVars, obsVars
    <3>2. \/ /\ \E step \in Steps \ {"done"} : pc' = [pc EXCEPT ![c] = step]
             /\ outcome' = outcome
          \/ /\ pc' = [pc EXCEPT ![c] = "done"]
             /\ \E class \in Outcomes \ {"none", "ok"} :
                  outcome' = [outcome EXCEPT ![c] = class]
      BY <2>4, <2>e, <2>i, Zenon DEF DecodeFails
    <3> QED
      BY <3>1, <3>2, OutcomeEarly, Zenon
  <2>5. ASSUME NEW c \in Calls, LeaseCached(c) PROVE OutcomeInv'
    <3>1. /\ pc[c] \in Before \cup {"check", "commit"}
          /\ UNCHANGED <<request, interrupt, native, late>>
      BY <2>5, <2>e, Zenon DEF LeaseCached, envVars, obsVars
    <3>2. \/ /\ \E step \in Steps \ {"done"} : pc' = [pc EXCEPT ![c] = step]
             /\ outcome' = outcome
          \/ /\ pc' = [pc EXCEPT ![c] = "done"]
             /\ \E class \in Outcomes \ {"none", "ok"} :
                  outcome' = [outcome EXCEPT ![c] = class]
      BY <2>5, <2>e, <2>i, Zenon DEF LeaseCached
    <3> QED
      BY <3>1, <3>2, OutcomeEarly, Zenon
  <2>6. ASSUME NEW c \in Calls, LeaseMiss(c) PROVE OutcomeInv'
    <3>1. /\ pc[c] \in Before \cup {"check", "commit"}
          /\ UNCHANGED <<request, interrupt, native, late>>
      BY <2>6, <2>e, Zenon DEF LeaseMiss, envVars, obsVars
    <3>2. \/ /\ \E step \in Steps \ {"done"} : pc' = [pc EXCEPT ![c] = step]
             /\ outcome' = outcome
          \/ /\ pc' = [pc EXCEPT ![c] = "done"]
             /\ \E class \in Outcomes \ {"none", "ok"} :
                  outcome' = [outcome EXCEPT ![c] = class]
      BY <2>6, <2>e, <2>i, Zenon DEF LeaseMiss
    <3> QED
      BY <3>1, <3>2, OutcomeEarly, Zenon
  <2>7. ASSUME NEW c \in Calls, Advertise(c) PROVE OutcomeInv'
    <3>1. /\ pc[c] \in Before \cup {"check", "commit"}
          /\ UNCHANGED <<request, interrupt, native, late>>
      BY <2>7, <2>e, Zenon DEF Advertise, envVars, obsVars
    <3>2. \/ /\ \E step \in Steps \ {"done"} : pc' = [pc EXCEPT ![c] = step]
             /\ outcome' = outcome
          \/ /\ pc' = [pc EXCEPT ![c] = "done"]
             /\ \E class \in Outcomes \ {"none", "ok"} :
                  outcome' = [outcome EXCEPT ![c] = class]
      BY <2>7, <2>e, <2>i, Zenon DEF Advertise
    <3> QED
      BY <3>1, <3>2, OutcomeEarly, Zenon
  <2>8. ASSUME NEW c \in Calls, PassChecks(c) PROVE OutcomeInv'
    <3>1. /\ pc[c] \in Before \cup {"check", "commit"}
          /\ UNCHANGED <<request, interrupt, native, late>>
      BY <2>8, <2>e, Zenon DEF PassChecks, envVars, obsVars
    <3>2. \/ /\ \E step \in Steps \ {"done"} : pc' = [pc EXCEPT ![c] = step]
             /\ outcome' = outcome
          \/ /\ pc' = [pc EXCEPT ![c] = "done"]
             /\ \E class \in Outcomes \ {"none", "ok"} :
                  outcome' = [outcome EXCEPT ![c] = class]
      BY <2>8, <2>e, <2>i, Zenon DEF PassChecks
    <3> QED
      BY <3>1, <3>2, OutcomeEarly, Zenon
  <2>9. ASSUME NEW c \in Calls, FailChecks(c) PROVE OutcomeInv'
    <3>1. /\ pc[c] \in Before \cup {"check", "commit"}
          /\ UNCHANGED <<request, interrupt, native, late>>
      BY <2>9, <2>e, Zenon DEF FailChecks, envVars, obsVars
    <3>2. \/ /\ \E step \in Steps \ {"done"} : pc' = [pc EXCEPT ![c] = step]
             /\ outcome' = outcome
          \/ /\ pc' = [pc EXCEPT ![c] = "done"]
             /\ \E class \in Outcomes \ {"none", "ok"} :
                  outcome' = [outcome EXCEPT ![c] = class]
      BY <2>9, <2>e, <2>i, Zenon DEF FailChecks
    <3> QED
      BY <3>1, <3>2, OutcomeEarly, Zenon
  <2>10. ASSUME NEW c \in Calls, Commit(c) PROVE OutcomeInv'
    <3>1. /\ pc[c] \in Before \cup {"check", "commit"}
          /\ UNCHANGED <<request, interrupt, native, late>>
      BY <2>10, <2>e, Zenon DEF Commit, envVars, obsVars
    <3>2. \/ /\ \E step \in Steps \ {"done"} : pc' = [pc EXCEPT ![c] = step]
             /\ outcome' = outcome
          \/ /\ pc' = [pc EXCEPT ![c] = "done"]
             /\ \E class \in Outcomes \ {"none", "ok"} :
                  outcome' = [outcome EXCEPT ![c] = class]
      BY <2>10, <2>e, <2>i, Zenon DEF Commit
    <3> QED
      BY <3>1, <3>2, OutcomeEarly, Zenon
  <2>11. ASSUME NEW c \in Calls, CheckContinuation(c) PROVE OutcomeInv'
    <3>1. pc[c] = "publish" /\ UNCHANGED <<request, interrupt, native, late>>
      BY <2>11, Zenon DEF CheckContinuation, envVars, obsVars
    <3>2. CASE Finish(c, "uncertain")
      BY <3>1, <3>2, OutcomeUncertain, Zenon
    <3>3. CASE Goto(c, "dispatch") /\ UNCHANGED outcome
      <4>1. OutcomeAt(c) /\ outcome[c] = "none"
        BY <2>w, <3>1, Zenon DEF OutcomeAt
      <4>2. /\ pc' = [pc EXCEPT ![c] = "dispatch"]
            /\ outcome' = [outcome EXCEPT ![c] = "none"]
        BY <2>0, <3>3, <4>1, Zenon
      <4>3. pc'[c] = "dispatch" /\ outcome'[c] = outcome[c]
        BY <2>0, <3>3, <4>2, Zenon
      <4>4. OutcomeAt(c)'
        BY <3>1, <4>1, <4>3, Zenon DEF OutcomeAt, Before
      <4> QED
        BY <3>1, <4>2, <4>4, OutcomeSteps, Zenon
    <3> QED
      BY <2>11, <3>2, <3>3, Zenon DEF CheckContinuation
  <2>12. ASSUME NEW c \in Calls, Dispatch(c) PROVE OutcomeInv'
    <3>1. pc[c] = "dispatch" /\ OutcomeAt(c) /\ UNCHANGED <<request, interrupt>>
      BY <2>12, <2>w, Zenon DEF Dispatch, envVars
    <3>2. /\ native[c] \in Nat /\ request[c].count \in Nat /\ late[c] = 0
          /\ native[c] < request[c].count
      BY <2>0, <3>1, Zenon DEF OutcomeAt
    <3>3. \/ native' = native /\ late' = late
          \/ /\ native' = [native EXCEPT ![c] = native[c] + 1]
             /\ late' = [late EXCEPT ![c] = IF Allowed(c) THEN late[c] ELSE late[c] + 1]
      BY <2>12, Zenon DEF Dispatch, Enqueue, obsVars
    <3>4. \/ pc' = [pc EXCEPT ![c] = "after"] /\ outcome' = outcome
          \/ /\ pc' = [pc EXCEPT ![c] = "done"]
             /\ outcome' = [outcome EXCEPT ![c] = "uncertain"]
      BY <2>12, Zenon DEF Dispatch
    <3>5. \A d \in Calls \ {c} : /\ pc'[d] = pc[d] /\ outcome'[d] = outcome[d]
                                 /\ native'[d] = native[d] /\ late'[d] = late[d]
      <4>1. \A d \in Calls \ {c} : pc'[d] = pc[d] /\ outcome'[d] = outcome[d]
        BY <2>0, <3>4, Zenon
      <4>2. \A d \in Calls \ {c} : native'[d] = native[d] /\ late'[d] = late[d]
        BY <2>0, <3>3, Zenon
      <4> QED
        BY <4>1, <4>2, Zenon
    <3>6. /\ native'[c] \in {native[c], native[c] + 1}
          /\ late'[c] \in {0, 1}
          /\ late'[c] = 1 => interrupt[c] # "none"
      BY <2>0, <3>2, <3>3, SMT DEF Allowed
    <3>7. \/ pc'[c] = "after" /\ outcome'[c] = "none"
          \/ pc'[c] = "done" /\ outcome'[c] = "uncertain"
      BY <2>0, <3>1, <3>4, Zenon DEF OutcomeAt
    <3>8. OutcomeAt(c)'
      <4>1. /\ native'[c] <= request[c].count /\ late'[c] <= 1
            /\ late'[c] > 0 => interrupt[c] # "none"
        BY <3>2, <3>6, SMT
      <4>2. CASE pc'[c] = "after" /\ outcome'[c] = "none"
        BY <3>1, <4>1, <4>2, Zenon DEF OutcomeAt, Before
      <4>3. CASE pc'[c] = "done" /\ outcome'[c] = "uncertain"
        BY <3>1, <4>1, <4>3, Zenon DEF OutcomeAt, Before
      <4> QED
        BY <3>7, <4>2, <4>3, Zenon
    <3> QED
      BY <3>1, <3>5, <3>8, OutcomeMoved, Zenon
  <2>13. ASSUME NEW c \in Calls, AfterDispatch(c) PROVE OutcomeInv'
    <3>1. pc[c] = "after" /\ OutcomeAt(c) /\ UNCHANGED <<request, interrupt, native, late>>
      BY <2>13, <2>w, Zenon DEF AfterDispatch, envVars, obsVars
    <3>2. CASE Finish(c, "uncertain")
      BY <3>1, <3>2, OutcomeUncertain, Zenon
    <3>3. ASSUME Allowed(c) PROVE late[c] = 0
      BY <2>0, <3>1, <3>3, SMT DEF OutcomeAt, Allowed
    <3>4. CASE Allowed(c) /\ native[c] < request[c].count /\ Goto(c, "publish") /\ UNCHANGED outcome
      <4>1. outcome[c] = "none"
        BY <3>1, Zenon DEF OutcomeAt
      <4>2. /\ pc' = [pc EXCEPT ![c] = "publish"]
            /\ outcome' = [outcome EXCEPT ![c] = "none"]
        BY <2>0, <3>4, <4>1, Zenon
      <4>3. pc'[c] = "publish" /\ outcome'[c] = outcome[c]
        BY <2>0, <3>4, <4>2, Zenon
      <4>4. OutcomeAt(c)'
        BY <3>1, <3>3, <3>4, <4>1, <4>3, Zenon DEF OutcomeAt, Before
      <4> QED
        BY <3>1, <4>2, <4>4, OutcomeSteps, Zenon
    <3>5. CASE Allowed(c) /\ native[c] >= request[c].count /\ Finish(c, "ok")
      <4>1. native[c] = request[c].count
        BY <2>0, <3>1, <3>5, SMTT(30) DEF OutcomeAt
      <4>2. pc' = [pc EXCEPT ![c] = "done"] /\ outcome' = [outcome EXCEPT ![c] = "ok"]
        BY <3>5, Zenon
      <4>3. pc'[c] = "done" /\ outcome'[c] = "ok"
        BY <2>0, <4>2, Zenon
      <4>4. OutcomeAt(c)'
        BY <3>1, <3>3, <3>5, <4>1, <4>3, Zenon DEF OutcomeAt, Before
      <4> QED
        BY <3>1, <4>2, <4>4, OutcomeSteps, Zenon
    <3> QED
      BY <2>13, <3>2, <3>4, <3>5, Zenon DEF AfterDispatch
  <2>14. ASSUME NEW c \in Calls, CompletionFails(c) PROVE OutcomeInv'
    BY <2>14, OutcomeUncertain, Zenon DEF CompletionFails, envVars, obsVars
  <2>15. ASSUME NEW c \in Calls, Interrupt(c) PROVE OutcomeInv'
    <3>1. /\ UNCHANGED <<request, native, late, pc, outcome>>
          /\ \E i \in Interrupts : interrupt' = [interrupt EXCEPT ![c] = i]
      BY <2>15, Zenon DEF Interrupt, callVars, obsVars
    <3>2. \A d \in Calls : interrupt[d] # "none" => interrupt'[d] # "none"
      BY <2>0, <3>1, InterruptsAssumption, Zenon
    <3>3. \A d \in Calls : OutcomeAt(d)'
      BY <2>w, <3>1, <3>2, Zenon DEF OutcomeAt
    <3> QED
      BY <3>3, OutcomePointwiseNext, Zenon
  <2>16. CASE ProbeFetch
    BY <2>16, OutcomeSame, Zenon DEF ProbeFetch, callVars, envVars, obsVars
  <2>17. CASE ProbeBind
    BY <2>17, OutcomeSame, Zenon DEF ProbeBind, callVars, envVars, obsVars
  <2>18. CASE Clear
    BY <2>18, OutcomeSame, Zenon DEF Clear, callVars, envVars, obsVars
  <2>19. CASE MasterChanges
    BY <2>19, OutcomeSame, Zenon DEF MasterChanges, callVars, envVars, obsVars
  <2>20. CASE RosShutdown
    BY <2>20, OutcomeSame, Zenon DEF RosShutdown, callVars, envVars, obsVars
  <2>21. CASE UNCHANGED vars
    BY <2>21, OutcomeSame, Zenon DEF vars, callVars, envVars, obsVars
  <2> QED
    BY <2>1, <2>2, <2>3, <2>4, <2>5, <2>6, <2>7, <2>8, <2>9, <2>10, <2>11,
       <2>12, <2>13, <2>14, <2>15, <2>16, <2>17, <2>18, <2>19, <2>20, <2>21, ZenonT(30)
    DEF Next, CallStep
<1> QED
  BY <1>1, <1>2, TypeCorrect, PTL DEF Spec

\* A failure that is not uncertain means that nothing was dispatched and
\* success that everything was; an interruption stops a call within one
\* message.
THEOREM HonestOutcomes == Spec => [](OutcomeHonest /\ InterruptStops)
<1>1. OutcomeInv => OutcomeHonest /\ InterruptStops
  BY Zenon DEF OutcomeInv
<1> QED
  BY <1>1, OutcomeStructure, PTL

-----------------------------------------------------------------------------
(* Leases.                                                                 *)

\* An entry has finitely many holders.
LEMMA HoldersFinite == \A e : IsFiniteSet(Holders(e)) /\ Cardinality(Holders(e)) \in Nat
<1> TAKE e
<1>1. Holders(e) \subseteq Calls
  BY Zenon DEF Holders
<1> QED
  BY <1>1, CallsAssumption, FS_Subset, FS_CardinalityType, Zenon

\* The holders are those of the leases and the entries selected.
LEMMA HoldersSame ==
  ASSUME UNCHANGED selected, \A d \in Calls : Leased(d)' <=> Leased(d)
  PROVE  \A e : Holders(e)' = Holders(e)
BY Zenon DEF Holders

\* The number of holders is exact, and an entry without holders stays cached
\* only if some call crossed the boundary with it.
LeaseInv ==
  /\ LeaseAccounting
  /\ \A t \in Topics : entries[t] # None =>
       active_calls[entries[t]] > 0 \/ committed[entries[t]]

\* Steps that give or take no lease, and drop nothing or the whole cache.
LEMMA LeaseFrame ==
  ASSUME LeaseInv, UNCHANGED <<active_calls, committed, selected>>,
         entries' \in {entries, NoEntries},
         \A d \in Calls : Leased(d)' <=> Leased(d)
  PROVE  LeaseInv'
BY HoldersSame, Zenon DEF LeaseInv, LeaseAccounting, NoEntries

\* release() by a holder, when nobody else moves, keeps LeaseInv.
LEMMA ReleaseKeepsLeases ==
  ASSUME TypeOK, EntryInv, LeaseInv, NEW c \in Calls, NEW flag \in BOOLEAN,
         Leased(c), ~Leased(c)', Release(c, flag), UNCHANGED selected,
         \A d \in Calls \ {c} : Leased(d)' <=> Leased(d)
  PROVE  LeaseInv'
<1>1. PICK e \in Calls : e = selected[c]
  BY DEF TypeOK, EntryInv
<1>2. PICK t \in Topics : t = request[c].topic
  BY RequestsAssumption, Zenon DEF TypeOK
<1>3. /\ active_calls \in [Calls -> Nat]
      /\ committed \in [Calls -> BOOLEAN]
      /\ entries \in [Topics -> Calls \cup {None}]
  BY Zenon DEF TypeOK
<1>4. \A u \in Topics : entries[u] = e => u = t
  <2>1. request[e].topic = t
    BY <1>1, <1>2, CallsAssumption, Zenon DEF EntryInv
  <2>2. e # None
    BY CallsAssumption, Zenon
  <2> QED
    BY <2>1, <2>2, Zenon DEF EntryInv
<1>5. Holders(e)' = Holders(e) \ {c} /\ c \in Holders(e)
  BY <1>1, ZenonT(30) DEF Holders
<1>6. \A x \in Calls \ {e} : Holders(x)' = Holders(x)
  BY <1>1, Zenon DEF Holders
<1>7. PICK left \in Nat : active_calls[e] = left + 1
  <2>1. active_calls[e] = Cardinality(Holders(e))
    BY Zenon DEF LeaseInv, LeaseAccounting
  <2>2. Cardinality(Holders(e)) # 0 /\ Cardinality(Holders(e)) \in Nat
    BY <1>5, HoldersFinite, FS_EmptySet, Zenon
  <2>3. active_calls[e] - 1 \in Nat /\ active_calls[e] = (active_calls[e] - 1) + 1
    BY <2>1, <2>2
  <2> QED
    BY <2>3, Zenon
<1>8. left = Cardinality(Holders(e)')
  <2>1. Cardinality(Holders(e)) = left + 1
    BY <1>7, Zenon DEF LeaseInv, LeaseAccounting
  <2>2. Cardinality(Holders(e) \ {c}) = Cardinality(Holders(e)) - 1
    BY <1>5, HoldersFinite, FS_RemoveElement, Zenon
  <2> QED
    BY <1>5, <2>1, <2>2
<1>9. /\ active_calls' = [active_calls EXCEPT ![e] = left]
      /\ committed' = [committed EXCEPT ![e] = committed[e] \/ flag]
      /\ entries' = IF entries[t] = e /\ left = 0 /\ ~(committed[e] \/ flag)
                    THEN [entries EXCEPT ![t] = None] ELSE entries
  <2>1. (IF active_calls[e] > 0 THEN active_calls[e] - 1 ELSE 0) = left
    BY <1>7
  <2> QED
    BY <1>1, <1>2, <2>1, Zenon DEF Release
<1> HIDE DEF TypeOK, EntryInv
<1>10. LeaseAccounting'
  <2> SUFFICES ASSUME NEW x \in Calls
               PROVE  active_calls'[x] = Cardinality(Holders(x)')
    BY Zenon DEF LeaseAccounting
  <2>1. CASE x = e
    BY <2>1, <1>3, <1>8, <1>9, Zenon
  <2>2. CASE x # e
    BY <2>2, <1>3, <1>6, <1>9, Zenon DEF LeaseInv, LeaseAccounting
  <2> QED
    BY <2>1, <2>2, Zenon
<1>11. ASSUME NEW u \in Topics, entries'[u] # None
       PROVE  active_calls'[entries'[u]] > 0 \/ committed'[entries'[u]]
  <2>1. entries'[u] = entries[u] /\ entries[u] \in Calls
    BY <1>3, <1>9, <1>11, Zenon
  <2>2. CASE entries[u] = e
    <3>1. left # 0 \/ committed[e] \/ flag
      BY <2>1, <2>2, <1>3, <1>4, <1>9, <1>11, Zenon
    <3>2. active_calls'[e] = left /\ committed'[e] = (committed[e] \/ flag)
      BY <1>3, <1>9, Zenon
    <3>3. left # 0 => left > 0
      BY <1>7
    <3> QED
      BY <2>1, <2>2, <3>1, <3>2, <3>3, Zenon
  <2>3. CASE entries[u] # e
    <3>1. /\ active_calls'[entries[u]] = active_calls[entries[u]]
          /\ committed'[entries[u]] = committed[entries[u]]
      BY <2>1, <2>3, <1>3, <1>9, Zenon
    <3> QED
      BY <2>1, <3>1, CallsAssumption, Zenon DEF LeaseInv
  <2> QED
    BY <2>2, <2>3, Zenon
<1> QED
  BY <1>10, <1>11, Zenon DEF LeaseInv

\* LeaseInv is invariant: every step of publish(), clear() and the probe
\* balances the leases it gives and takes.
THEOREM LeaseStructure == Spec => []LeaseInv
<1>1. Init => LeaseInv
  <2> SUFFICES ASSUME Init PROVE LeaseInv
    BY Zenon
  <2>1. \A e : Holders(e) = {}
    BY Zenon DEF Init, Holders, Leased
  <2> QED
    BY <2>1, FS_EmptySet, Zenon DEF Init, LeaseInv, LeaseAccounting, NoEntries
<1>2. TypeOK /\ EntryInv /\ LeaseInv /\ [Next]_vars => LeaseInv'
  <2> SUFFICES ASSUME TypeOK, EntryInv, LeaseInv, [Next]_vars PROVE LeaseInv'
    BY Zenon
  <2>0. pc \in [Calls -> Steps]
    BY Zenon DEF TypeOK
  <2> USE <2>0 DEF registryVars, callVars
  <2>1. ASSUME NEW c \in Calls, Begin(c) PROVE LeaseInv'
    <3>1. UNCHANGED <<entries, active_calls, committed, selected>>
      BY <2>1, Zenon DEF Begin
    <3>2. \A d \in Calls : Leased(d)' <=> Leased(d)
      BY <2>1, Zenon DEF Begin, Finish, Goto, Leased
    <3> QED
      BY <3>1, <3>2, LeaseFrame, Zenon
  <2>2. ASSUME NEW c \in Calls, FetchGeneration(c) PROVE LeaseInv'
    <3>1. UNCHANGED <<entries, active_calls, committed, selected>>
      BY <2>2, Zenon DEF FetchGeneration
    <3>2. \A d \in Calls : Leased(d)' <=> Leased(d)
      BY <2>2, Zenon DEF FetchGeneration, Finish, Goto, Leased
    <3> QED
      BY <3>1, <3>2, LeaseFrame, Zenon
  <2>3. ASSUME NEW c \in Calls, BindGeneration(c) PROVE LeaseInv'
    <3>1. UNCHANGED <<active_calls, committed, selected>>
      BY <2>3, Zenon DEF BindGeneration
    <3>2. \A d \in Calls : Leased(d)' <=> Leased(d)
      BY <2>3, Zenon DEF BindGeneration, Finish, Goto, Leased
    <3>3. entries' \in {entries, NoEntries}
      BY <2>3, Zenon DEF BindGeneration
    <3> QED
      BY <3>1, <3>2, <3>3, LeaseFrame, Zenon
  <2>4. ASSUME NEW c \in Calls, DecodeFails(c) PROVE LeaseInv'
    <3>1. UNCHANGED <<entries, active_calls, committed, selected>>
      BY <2>4, Zenon DEF DecodeFails
    <3>2. \A d \in Calls : Leased(d)' <=> Leased(d)
      BY <2>4, Zenon DEF DecodeFails, Finish, Goto, Leased
    <3> QED
      BY <3>1, <3>2, LeaseFrame, Zenon
  <2>5. ASSUME NEW c \in Calls, LeaseCached(c) PROVE LeaseInv'
    <3>0. PICK e \in Calls : e = entries[request[c].topic]
      BY <2>5, RequestsAssumption, ZenonT(30) DEF LeaseCached, TypeOK
    <3>1. CASE UNCHANGED <<active_calls, selected>> /\ Finish(c, "permanent")
      <4>1. UNCHANGED <<entries, committed>>
        BY <2>5, ZenonT(30) DEF LeaseCached
      <4>2. \A d \in Calls : Leased(d)' <=> Leased(d)
        BY <2>5, <3>1, Zenon DEF LeaseCached, Finish, Goto, Leased
      <4> QED
        BY <3>1, <4>1, <4>2, LeaseFrame, Zenon
    <3>2. CASE /\ active_calls' = [active_calls EXCEPT ![e] = @ + 1]
               /\ selected' = [selected EXCEPT ![c] = e]
               /\ Goto(c, "check")
      <4>0. /\ active_calls \in [Calls -> Nat]
            /\ entries \in [Topics -> Calls \cup {None}]
            /\ selected \in [Calls -> Calls \cup {None}]
        BY Zenon DEF TypeOK
      <4>1. pc[c] = "decode" /\ UNCHANGED <<entries, committed>>
        BY <2>5, Zenon DEF LeaseCached
      <4>2. Holders(e)' = Holders(e) \cup {c} /\ c \notin Holders(e)
        BY <3>2, <4>0, <4>1, Zenon DEF Holders, Leased, Goto
      <4>3. \A x \in Calls \ {e} : Holders(x)' = Holders(x)
        BY <3>2, <4>0, <4>1, Zenon DEF Holders, Leased, Goto
      <4>4. active_calls'[e] = Cardinality(Holders(e)')
        <5>1. active_calls'[e] = Cardinality(Holders(e)) + 1
          BY <3>2, <4>0, Zenon DEF LeaseInv, LeaseAccounting
        <5>2. Cardinality(Holders(e) \cup {c}) = Cardinality(Holders(e)) + 1
          BY <4>2, HoldersFinite, FS_AddElement, Zenon
        <5> QED
          BY <5>1, <5>2, <4>2, Zenon
      <4>5. LeaseAccounting'
        BY <3>2, <4>0, <4>3, <4>4, Zenon DEF LeaseInv, LeaseAccounting
      <4>6. \A x \in Calls : active_calls[x] > 0 => active_calls'[x] > 0
        BY <3>2, <4>0
      <4> QED
        BY <4>0, <4>1, <4>5, <4>6, Zenon DEF LeaseInv
    <3> QED
      BY <2>5, <3>0, <3>1, <3>2, ZenonT(30) DEF LeaseCached
  <2>6. ASSUME NEW c \in Calls, LeaseMiss(c) PROVE LeaseInv'
    <3>1. UNCHANGED <<entries, active_calls, committed, selected>>
      BY <2>6, Zenon DEF LeaseMiss
    <3>2. \A d \in Calls : Leased(d)' <=> Leased(d)
      BY <2>6, Zenon DEF LeaseMiss, Finish, Goto, Leased
    <3> QED
      BY <3>1, <3>2, LeaseFrame, Zenon
  <2>7. ASSUME NEW c \in Calls, Advertise(c) PROVE LeaseInv'
    <3>1. CASE UNCHANGED <<entries, active_calls, publisher, selected>> /\ Finish(c, "permanent")
      <4>1. UNCHANGED committed
        BY <2>7, Zenon DEF Advertise
      <4>2. \A d \in Calls : Leased(d)' <=> Leased(d)
        BY <2>7, <3>1, Zenon DEF Advertise, Finish, Goto, Leased
      <4> QED
        BY <3>1, <4>1, <4>2, LeaseFrame, Zenon
    <3>2. CASE /\ active_calls' = [active_calls EXCEPT ![c] = 1]
               /\ selected' = [selected EXCEPT ![c] = c]
               /\ entries' = [entries EXCEPT ![request[c].topic] = c]
               /\ Goto(c, "check")
      <4>0. /\ active_calls \in [Calls -> Nat]
            /\ entries \in [Topics -> Calls \cup {None}]
            /\ selected \in [Calls -> Calls \cup {None}]
            /\ request[c].topic \in Topics
        BY RequestsAssumption, Zenon DEF TypeOK
      <4>1. pc[c] = "advertise" /\ UNCHANGED committed
        BY <2>7, Zenon DEF Advertise
      <4>2. publisher[c] = "none"
        BY <4>1, Zenon DEF EntryInv, Before
      <4>3. /\ \A d \in Calls : selected[d] # c
            /\ \A t \in Topics : entries[t] # c
        BY <4>2, CallsAssumption, SMTT(30) DEF EntryInv
      <4>4. Holders(c)' = {c}
        BY <3>2, <4>0, <4>3, Zenon DEF Holders, Leased, Goto
      <4>5. \A x \in Calls \ {c} : Holders(x)' = Holders(x)
        BY <3>2, <4>0, <4>1, Zenon DEF Holders, Leased, Goto
      <4>6. active_calls'[c] = 1 /\ Cardinality({c}) = 1
        BY <3>2, <4>0, FS_Singleton, Zenon
      <4>7. LeaseAccounting'
        BY <3>2, <4>0, <4>4, <4>5, <4>6, Zenon DEF LeaseInv, LeaseAccounting
      <4>8. \A x \in Calls : active_calls[x] > 0 => active_calls'[x] > 0
        BY <3>2, <4>0
      <4> QED
        BY <3>2, <4>0, <4>1, <4>6, <4>7, <4>8, SMTT(30) DEF LeaseInv
    <3> QED
      BY <2>7, <3>1, <3>2, Zenon DEF Advertise
  <2>8. ASSUME NEW c \in Calls, PassChecks(c) PROVE LeaseInv'
    <3>1. UNCHANGED <<entries, active_calls, committed, selected>>
      BY <2>8, Zenon DEF PassChecks
    <3>2. \A d \in Calls : Leased(d)' <=> Leased(d)
      BY <2>8, Zenon DEF PassChecks, Finish, Goto, Leased
    <3> QED
      BY <3>1, <3>2, LeaseFrame, Zenon
  <2>9. ASSUME NEW c \in Calls, FailChecks(c) PROVE LeaseInv'
    <3>1. Leased(c) /\ ~Leased(c)' /\ Release(c, FALSE) /\ UNCHANGED selected
      BY <2>9, Zenon DEF FailChecks, Finish, Goto, Leased
    <3>2. \A d \in Calls \ {c} : Leased(d)' <=> Leased(d)
      BY <2>9, Zenon DEF FailChecks, Finish, Goto, Leased
    <3> QED
      BY <3>1, <3>2, ReleaseKeepsLeases, Zenon
  <2>10. ASSUME NEW c \in Calls, Commit(c) PROVE LeaseInv'
    <3>1. Leased(c) /\ ~Leased(c)' /\ Release(c, TRUE) /\ UNCHANGED selected
      BY <2>10, Zenon DEF Commit, Finish, Goto, Leased
    <3>2. \A d \in Calls \ {c} : Leased(d)' <=> Leased(d)
      BY <2>10, Zenon DEF Commit, Finish, Goto, Leased
    <3> QED
      BY <3>1, <3>2, ReleaseKeepsLeases, Zenon
  <2>11. ASSUME NEW c \in Calls, CheckContinuation(c) PROVE LeaseInv'
    <3>1. UNCHANGED <<entries, active_calls, committed, selected>>
      BY <2>11, Zenon DEF CheckContinuation
    <3>2. \A d \in Calls : Leased(d)' <=> Leased(d)
      BY <2>11, Zenon DEF CheckContinuation, Finish, Goto, Leased
    <3> QED
      BY <3>1, <3>2, LeaseFrame, Zenon
  <2>12. ASSUME NEW c \in Calls, Dispatch(c) PROVE LeaseInv'
    <3>1. UNCHANGED <<entries, active_calls, committed, selected>>
      BY <2>12, Zenon DEF Dispatch
    <3>2. \A d \in Calls : Leased(d)' <=> Leased(d)
      BY <2>12, Zenon DEF Dispatch, Finish, Goto, Leased
    <3> QED
      BY <3>1, <3>2, LeaseFrame, Zenon
  <2>13. ASSUME NEW c \in Calls, AfterDispatch(c) PROVE LeaseInv'
    <3>1. UNCHANGED <<entries, active_calls, committed, selected>>
      BY <2>13, Zenon DEF AfterDispatch
    <3>2. \A d \in Calls : Leased(d)' <=> Leased(d)
      BY <2>13, Zenon DEF AfterDispatch, Finish, Goto, Leased
    <3> QED
      BY <3>1, <3>2, LeaseFrame, Zenon
  <2>14. ASSUME NEW c \in Calls, CompletionFails(c) PROVE LeaseInv'
    <3>1. UNCHANGED <<entries, active_calls, committed, selected>>
      BY <2>14, Zenon DEF CompletionFails
    <3>2. \A d \in Calls : Leased(d)' <=> Leased(d)
      BY <2>14, Zenon DEF CompletionFails, Finish, Goto, Leased
    <3> QED
      BY <3>1, <3>2, LeaseFrame, Zenon
  <2>15. ASSUME NEW c \in Calls, Interrupt(c) PROVE LeaseInv'
    <3>1. UNCHANGED <<entries, active_calls, committed, selected>>
      BY <2>15, Zenon DEF Interrupt
    <3>2. \A d \in Calls : Leased(d)' <=> Leased(d)
      BY <2>15, Zenon DEF Interrupt, Finish, Goto, Leased
    <3> QED
      BY <3>1, <3>2, LeaseFrame, Zenon
  <2>16. CASE ProbeFetch
    <3>1. UNCHANGED <<entries, active_calls, committed, selected>>
      BY <2>16, Zenon DEF ProbeFetch
    <3>2. \A d \in Calls : Leased(d)' <=> Leased(d)
      BY <2>16, Zenon DEF ProbeFetch, Finish, Goto, Leased
    <3> QED
      BY <3>1, <3>2, LeaseFrame, Zenon
  <2>17. CASE ProbeBind
    <3>1. UNCHANGED <<entries, active_calls, committed, selected>>
      BY <2>17, Zenon DEF ProbeBind
    <3>2. \A d \in Calls : Leased(d)' <=> Leased(d)
      BY <2>17, Zenon DEF ProbeBind, Finish, Goto, Leased
    <3> QED
      BY <3>1, <3>2, LeaseFrame, Zenon
  <2>18. CASE Clear
    <3>1. UNCHANGED <<active_calls, committed, selected>>
      BY <2>18, Zenon DEF Clear
    <3>2. \A d \in Calls : Leased(d)' <=> Leased(d)
      BY <2>18, Zenon DEF Clear, Finish, Goto, Leased
    <3>3. entries' \in {entries, NoEntries}
      BY <2>18, Zenon DEF Clear
    <3> QED
      BY <3>1, <3>2, <3>3, LeaseFrame, Zenon
  <2>19. CASE MasterChanges
    <3>1. UNCHANGED <<entries, active_calls, committed, selected>>
      BY <2>19, Zenon DEF MasterChanges
    <3>2. \A d \in Calls : Leased(d)' <=> Leased(d)
      BY <2>19, Zenon DEF MasterChanges, Finish, Goto, Leased
    <3> QED
      BY <3>1, <3>2, LeaseFrame, Zenon
  <2>20. CASE RosShutdown
    <3>1. UNCHANGED <<entries, active_calls, committed, selected>>
      BY <2>20, Zenon DEF RosShutdown
    <3>2. \A d \in Calls : Leased(d)' <=> Leased(d)
      BY <2>20, Zenon DEF RosShutdown, Finish, Goto, Leased
    <3> QED
      BY <3>1, <3>2, LeaseFrame, Zenon
  <2>21. CASE UNCHANGED vars
    <3>1. UNCHANGED <<entries, active_calls, committed, selected>>
      BY <2>21, Zenon DEF vars
    <3>2. \A d \in Calls : Leased(d)' <=> Leased(d)
      BY <2>21, Zenon DEF vars, Finish, Goto, Leased
    <3> QED
      BY <3>1, <3>2, LeaseFrame, Zenon
  <2> QED
    BY <2>1, <2>2, <2>3, <2>4, <2>5, <2>6, <2>7, <2>8, <2>9, <2>10, <2>11,
       <2>12, <2>13, <2>14, <2>15, <2>16, <2>17, <2>18, <2>19, <2>20, <2>21, ZenonT(30)
    DEF Next, CallStep
<1> QED
  BY <1>1, <1>2, TypeCorrect, EntryStructure, PTL DEF Spec

\* active_calls counts the holders of every entry, and a cached entry is in
\* use or was dispatched on, with a valid handle.
THEOREM Leases == Spec => [](LeaseAccounting /\ NoLeftoverEntry)
<1>1. EntryInv /\ LeaseInv /\ TypeOK => LeaseAccounting /\ NoLeftoverEntry
  BY DEF EntryInv, LeaseInv, NoLeftoverEntry, TypeOK
<1> QED
  BY <1>1, LeaseStructure, TypeCorrect, EntryStructure, PTL

\* The cache is within maximum_publishers_, and no slot of it is wasted on an
\* entry that no call uses and none dispatched on.
THEOREM CacheIsSound == Spec => []CacheSound
<1>1. NoLeftoverEntry /\ CapacityRespected => CacheSound
  BY Zenon DEF CacheSound
<1> QED
  BY <1>1, Leases, Capacity, PTL

-----------------------------------------------------------------------------
(* The refinement of NativeOperation.                                      *)

Classes == Outcomes \ {"none", "ok", "uncertain"}
Counts == [c \in Calls |-> request[c].count]

-----------------------------------------------------------------------------
(* The steps of a call, as NativeOperation sees them.                      *)

\* A step the abstract call does not see.
LEMMA StutterStep ==
  ASSUME UNCHANGED <<outcome, native, request>>
  PROVE  UNCHANGED Abstract!vars
BY Zenon DEF Abstract!vars

\* A call that ends before the boundary.
LEMMA RefuseStep ==
  ASSUME NEW c \in Calls, NEW class \in Classes,
         outcome[c] = "none", native[c] = 0,
         outcome' = [outcome EXCEPT ![c] = class],
         UNCHANGED <<native, request>>
  PROVE  Abstract!Next
BY Zenon DEF Abstract!Next, Abstract!Refuse, Classes

\* A call that ends behind it.
LEMMA GiveUpStep ==
  ASSUME NEW c \in Calls, outcome[c] = "none",
         outcome' = [outcome EXCEPT ![c] = "uncertain"],
         UNCHANGED <<native, request>>
  PROVE  Abstract!Next
BY Zenon DEF Abstract!Next, Abstract!GiveUp

\* A call that has sent everything.
LEMMA SucceedStep ==
  ASSUME NEW c \in Calls, outcome[c] = "none", native[c] = request[c].count,
         outcome' = [outcome EXCEPT ![c] = "ok"],
         UNCHANGED <<native, request>>
  PROVE  Abstract!Next
BY Zenon DEF Abstract!Next, Abstract!Succeed

\* A message sent.
LEMMA EffectStep ==
  ASSUME NEW c \in Calls, outcome[c] = "none", native[c] < request[c].count,
         native' = [native EXCEPT ![c] = @ + 1], UNCHANGED request,
         \/ UNCHANGED outcome
         \/ outcome' = [outcome EXCEPT ![c] = "uncertain"]
  PROVE  Abstract!Next
BY Zenon DEF Abstract!Next, Abstract!Effect, Abstract!GiveUp

-----------------------------------------------------------------------------
\* Every behaviour of the registry is one of NativeOperation: each step of
\* publish() is a native effect, the one step that sets the result class, or
\* invisible.
THEOREM Implements == Spec => HonestOperation
<1>1. Init => Abstract!Init
  <2> SUFFICES ASSUME Init PROVE Abstract!Init
    BY Zenon
  <2>1. Counts \in [Calls -> Nat \ {0}]
    BY RequestsAssumption, Zenon DEF Init, Counts
  <2> QED
    BY <2>1, Zenon DEF Init, Abstract!Init, Counts
<1>2. TypeOK /\ OutcomeInv /\ [Next]_vars => [Abstract!Next]_(Abstract!vars)
  <2> SUFFICES ASSUME TypeOK, OutcomeInv, [Next]_vars
               PROVE  [Abstract!Next]_(Abstract!vars)
    BY Zenon
  <2>0. \A c \in Calls :
          /\ native[c] \in Nat /\ request[c].count \in Nat
          /\ interrupt[c] \in {"none", "cancelled", "deadline"}
    <3>1. /\ native \in [Calls -> Nat] /\ request \in [Calls -> Requests]
          /\ interrupt \in [Calls -> Interrupts \cup {"none"}]
      BY Zenon DEF TypeOK
    <3> QED
      BY <3>1, RequestsAssumption, InterruptsAssumption, Zenon
  <2>a. \A c \in Calls :
          /\ pc[c] # "done" => outcome[c] = "none"
          /\ pc[c] \in Before \cup {"check", "commit"} => native[c] = 0
          /\ pc[c] \in {"publish", "dispatch"} => native[c] < request[c].count
          /\ native[c] <= request[c].count
    BY Zenon DEF OutcomeInv
  <2> HIDE DEF OutcomeInv, TypeOK
  <2> USE DEF callVars, envVars, obsVars, Before, Allowed, Finish, Goto
  <2>1. ASSUME NEW c \in Calls, Begin(c) PROVE UNCHANGED Abstract!vars
    BY <2>1, StutterStep, Zenon DEF Begin
  <2>2. ASSUME NEW c \in Calls, FetchGeneration(c)
        PROVE  [Abstract!Next]_(Abstract!vars)
    <3>1. pc[c] = "start" /\ UNCHANGED <<native, request>>
      BY <2>2, Zenon DEF FetchGeneration
    <3>2. outcome[c] = "none" /\ native[c] = 0
      BY <2>a, <3>1, Zenon
    <3>3. CASE UNCHANGED outcome
      BY <3>1, <3>3, StutterStep, Zenon
    <3>4. ASSUME NEW class \in Classes, outcome' = [outcome EXCEPT ![c] = class]
          PROVE  Abstract!Next
      BY <3>1, <3>2, <3>4, RefuseStep, Zenon
    <3>5. UNCHANGED outcome \/ \E class \in Classes : outcome' = [outcome EXCEPT ![c] = class]
      BY <2>0, <2>2, Zenon DEF FetchGeneration, Classes, Outcomes
    <3> QED
      BY <3>3, <3>4, <3>5, Zenon
  <2>3. ASSUME NEW c \in Calls,
               BindGeneration(c) \/ DecodeFails(c) \/ LeaseCached(c)
                 \/ LeaseMiss(c) \/ Advertise(c)
        PROVE  [Abstract!Next]_(Abstract!vars)
    <3>1. pc[c] \in Before /\ UNCHANGED <<native, request>>
      BY <2>3, Zenon DEF BindGeneration, DecodeFails, LeaseCached, LeaseMiss, Advertise
    <3>2. outcome[c] = "none" /\ native[c] = 0
      BY <2>a, <3>1, Zenon
    <3>3. CASE UNCHANGED outcome
      BY <3>1, <3>3, StutterStep, Zenon
    <3>4. ASSUME NEW class \in Classes, outcome' = [outcome EXCEPT ![c] = class]
          PROVE  Abstract!Next
      BY <3>1, <3>2, <3>4, RefuseStep, Zenon
    <3>5. \/ UNCHANGED outcome
          \/ \E class \in {"permanent", "transient", "resource-exhausted"} :
               outcome' = [outcome EXCEPT ![c] = class]
      BY <2>3, Zenon DEF BindGeneration, DecodeFails, LeaseCached, LeaseMiss, Advertise
    <3> QED
      BY <3>3, <3>4, <3>5, Zenon DEF Classes, Outcomes
  <2>4. ASSUME NEW c \in Calls, PassChecks(c) \/ Commit(c) PROVE UNCHANGED Abstract!vars
    BY <2>4, StutterStep, Zenon DEF PassChecks, Commit
  <2>5. ASSUME NEW c \in Calls, FailChecks(c) PROVE Abstract!Next
    <3>1. pc[c] = "check" /\ UNCHANGED <<native, request>>
      BY <2>5, Zenon DEF FailChecks
    <3>2. outcome[c] = "none" /\ native[c] = 0
      BY <2>a, <3>1, Zenon
    <3>3. PICK class \in Classes : outcome' = [outcome EXCEPT ![c] = class]
      BY <2>0, <2>5, Zenon DEF FailChecks, Classes, Outcomes
    <3> QED
      BY <3>1, <3>2, <3>3, RefuseStep, Zenon
  <2>6. ASSUME NEW c \in Calls, CheckContinuation(c) \/ CompletionFails(c)
        PROVE  [Abstract!Next]_(Abstract!vars)
    <3>1. outcome[c] = "none" /\ UNCHANGED <<native, request>>
      BY <2>a, <2>6, Zenon DEF CheckContinuation, CompletionFails
    <3>2. UNCHANGED outcome \/ outcome' = [outcome EXCEPT ![c] = "uncertain"]
      BY <2>6, Zenon DEF CheckContinuation, CompletionFails
    <3> QED
      BY <3>1, <3>2, StutterStep, GiveUpStep, Zenon
  <2>7. ASSUME NEW c \in Calls, Dispatch(c) PROVE [Abstract!Next]_(Abstract!vars)
    <3>1. /\ outcome[c] = "none" /\ native[c] < request[c].count
          /\ UNCHANGED request
      BY <2>a, <2>7 DEF Dispatch
    <3>2. UNCHANGED outcome \/ outcome' = [outcome EXCEPT ![c] = "uncertain"]
      BY <2>7, Zenon DEF Dispatch
    <3>3. \/ native' = [native EXCEPT ![c] = @ + 1]
          \/ UNCHANGED native /\ outcome' = [outcome EXCEPT ![c] = "uncertain"]
      BY <2>7, Zenon DEF Dispatch, Enqueue
    <3> QED
      BY <3>1, <3>2, <3>3, EffectStep, GiveUpStep, Zenon
  <2>8. ASSUME NEW c \in Calls, AfterDispatch(c) PROVE [Abstract!Next]_(Abstract!vars)
    <3>1. outcome[c] = "none" /\ UNCHANGED <<native, request>>
      BY <2>a, <2>8, Zenon DEF AfterDispatch
    <3>2. \/ UNCHANGED outcome
          \/ outcome' = [outcome EXCEPT ![c] = "uncertain"]
          \/ native[c] = request[c].count /\ outcome' = [outcome EXCEPT ![c] = "ok"]
      BY <2>0, <2>a, <2>8, SMTT(30) DEF AfterDispatch
    <3> QED
      BY <3>1, <3>2, StutterStep, GiveUpStep, SucceedStep, Zenon
  <2>9. ASSUME \/ \E c \in Calls : Interrupt(c)
               \/ ProbeFetch \/ ProbeBind \/ Clear \/ MasterChanges \/ RosShutdown
               \/ UNCHANGED vars
        PROVE  UNCHANGED Abstract!vars
    <3>1. UNCHANGED <<outcome, native, request>>
      BY <2>9, Zenon DEF Interrupt, ProbeFetch, ProbeBind, Clear, MasterChanges,
                  RosShutdown, vars
    <3> QED
      BY <3>1, StutterStep, Zenon
  <2> QED
    BY <2>1, <2>2, <2>3, <2>4, <2>5, <2>6, <2>7, <2>8, <2>9, ZenonT(30)
    DEF Next, CallStep
<1> QED
  BY <1>1, <1>2, TypeCorrect, OutcomeStructure, PTL
  DEF Spec, HonestOperation, Abstract!Spec

-----------------------------------------------------------------------------
(* Dropping entries.                                                       *)

\* A release that drops the cached entry was the last lease on it.
LEMMA ReleaseEvicts ==
  ASSUME TypeOK, EntryInv, LeaseInv', NEW c \in Calls, NEW flag \in BOOLEAN,
         Leased(c), Release(c, flag)
  PROVE  SafeEviction
<1> SUFFICES ASSUME NEW t \in Topics, entries[t] # None, entries'[t] # entries[t]
             PROVE  Evicted(t)
  BY Zenon DEF SafeEviction
<1>1. PICK e \in Calls : e = selected[c]
  <2>1. selected[c] \in Calls \cup {None}
    BY Zenon DEF TypeOK
  <2>2. selected[c] # None
    BY Zenon DEF EntryInv
  <2>3. QED
    BY <2>1, <2>2, Zenon
<1>2. /\ active_calls \in [Calls -> Nat]
      /\ committed \in [Calls -> BOOLEAN]
      /\ entries \in [Topics -> Calls \cup {None}]
  BY Zenon DEF TypeOK
<1>3. PICK left \in Nat : left = IF active_calls[e] > 0 THEN active_calls[e] - 1 ELSE 0
  BY <1>2
<1>4. /\ active_calls' = [active_calls EXCEPT ![e] = left]
      /\ committed' = [committed EXCEPT ![e] = committed[e] \/ flag]
      /\ entries' = IF entries[request[c].topic] = e /\ left = 0 /\ ~(committed[e] \/ flag)
                    THEN [entries EXCEPT ![request[c].topic] = None] ELSE entries
  BY <1>1, <1>3, Zenon DEF Release
<1>5. /\ t = request[c].topic /\ entries[t] = e /\ left = 0
      /\ ~(committed[e] \/ flag) /\ entries'[t] = None
  BY <1>2, <1>4, Zenon
<1>6. active_calls'[e] = 0 /\ ~committed'[e]
  BY <1>2, <1>4, <1>5, Zenon
<1>7. Cardinality(Holders(e)') = 0
  BY <1>6, Zenon DEF LeaseInv, LeaseAccounting
<1>8. Holders(e)' = {}
  <2>1. IsFiniteSet(Holders(e)')
    <3>1. Holders(e)' \subseteq Calls
      BY Zenon DEF Holders
    <3> QED
      BY <3>1, CallsAssumption, FS_Subset, Zenon
  <2> QED
    BY <1>7, <2>1, FS_EmptySet, Zenon
<1>9. \A d \in Calls : ~(Leased(d)' /\ selected'[d] = e)
  BY <1>8, Zenon DEF Holders
<1> QED
  BY <1>5, <1>6, <1>9, Zenon DEF Evicted

\* An entry leaves the cache with all others, or alone when nobody holds it and
\* nobody dispatched on it.
THEOREM Eviction == Spec => EvictionIsSafe
<1>1. TypeOK /\ EntryInv /\ CapacityInv /\ LeaseInv' /\ [Next]_vars => [SafeEviction]_vars
  <2> SUFFICES ASSUME TypeOK, EntryInv, CapacityInv, LeaseInv', [Next]_vars
               PROVE  SafeEviction \/ UNCHANGED vars
    BY Zenon
  <2> USE DEF registryVars, callVars
  <2>1. ASSUME UNCHANGED entries PROVE SafeEviction
    BY <2>1, Zenon DEF SafeEviction
  <2>2. ASSUME entries' = NoEntries, active_calls' = active_calls PROVE SafeEviction
    BY <2>2, Zenon DEF SafeEviction, Evicted
  <2>3. ASSUME NEW c \in Calls, Advertise(c) PROVE SafeEviction
    <3>1. entries[request[c].topic] = None
      BY <2>3, Zenon DEF Advertise, CapacityInv
    <3>2. entries' \in {entries, [entries EXCEPT ![request[c].topic] = c]}
      BY <2>3, Zenon DEF Advertise
    <3>3. \A t \in Topics : entries[t] # None => entries'[t] = entries[t]
      BY <3>1, <3>2, Zenon DEF TypeOK
    <3> QED
      BY <3>3, Zenon DEF SafeEviction
  <2>4. ASSUME NEW c \in Calls, FailChecks(c) PROVE SafeEviction
    BY <2>4, ReleaseEvicts, Zenon DEF FailChecks, Leased
  <2>5. ASSUME NEW c \in Calls, Commit(c) PROVE SafeEviction
    BY <2>5, ReleaseEvicts, Zenon DEF Commit, Leased
  <2>6. ASSUME NEW c \in Calls, BindGeneration(c) PROVE SafeEviction
    BY <2>1, <2>2, <2>6, Zenon DEF BindGeneration
  <2>7. ASSUME Clear PROVE SafeEviction
    BY <2>2, <2>7, Zenon DEF Clear
  <2>8. ASSUME NEW c \in Calls,
               Begin(c) \/ FetchGeneration(c) \/ DecodeFails(c) \/ LeaseCached(c)
                 \/ LeaseMiss(c) \/ PassChecks(c) \/ CheckContinuation(c)
                 \/ Dispatch(c) \/ AfterDispatch(c) \/ CompletionFails(c)
                 \/ Interrupt(c)
        PROVE  SafeEviction
    BY <2>1, <2>8, Zenon DEF Begin, FetchGeneration, DecodeFails, LeaseCached, LeaseMiss,
                      PassChecks, CheckContinuation, Dispatch, AfterDispatch,
                      CompletionFails, Interrupt
  <2>9. ASSUME ProbeFetch \/ ProbeBind \/ MasterChanges \/ RosShutdown
        PROVE  SafeEviction
    BY <2>1, <2>9, Zenon DEF ProbeFetch, ProbeBind, MasterChanges, RosShutdown
  <2> QED
    BY <2>3, <2>4, <2>5, <2>6, <2>7, <2>8, <2>9, ZenonT(30) DEF Next, CallStep
<1> QED
  BY <1>1, TypeCorrect, EntryStructure, CapacityStructure, LeaseStructure, PTL
  DEF Spec, EvictionIsSafe
=============================================================================
