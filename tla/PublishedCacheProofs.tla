------------------------ MODULE PublishedCacheProofs ------------------------
(***************************************************************************)
(* Theorems about the cache of published definitions, for any number of    *)
(* instances, handlers and readers, with polling and without.              *)
(***************************************************************************)
EXTENDS PublishedCache, TLAPS

USE PublishedCacheAssumption

LEMMA InitSound == Init => TypeOK /\ CacheSound
  BY DEF Init, TypeOK, CacheSound, Versions, Idle

(* A fill leaves an entry at the greater of what was there and what comes. *)
LEMMA FilledIsMax ==
    ASSUME cache \in [Instances -> Versions], NEW i \in Instances, NEW v \in Versions
    PROVE  /\ Filled(i, v) \in [Instances -> Versions]
           /\ \A j \in Instances : cache[j] <= Filled(i, v)[j]
           /\ \A n \in Versions : v <= n /\ (\A j \in Instances : cache[j] <= n)
                => \A j \in Instances : Filled(i, v)[j] <= n
  BY DEF Filled, Versions

LEMMA StepSound == TypeOK /\ CacheSound /\ [Next]_vars => TypeOK' /\ CacheSound'
<1> SUFFICES ASSUME TypeOK, CacheSound, [Next]_vars
             PROVE  TypeOK' /\ CacheSound'
  OBVIOUS
<1> USE DEF Versions, Idle
<1>1. ASSUME NEW h \in Handlers, Commit(h)
      PROVE  TypeOK' /\ CacheSound'
  <2>1. latest' \in Versions /\ latest <= latest'
    BY <1>1 DEF Commit, TypeOK
  <2>2. TypeOK'
    BY <1>1, <2>1 DEF Commit, TypeOK
  <2>3. CacheSound'
    BY <1>1, <2>1 DEF Commit, TypeOK, CacheSound
  <2> QED
    BY <2>2, <2>3
<1>2. ASSUME NEW h \in Handlers, Invalidate(h)
      PROVE  TypeOK' /\ CacheSound'
  BY <1>2 DEF Invalidate, TypeOK, CacheSound
<1>3. ASSUME NEW r \in Readers, Lookup(r)
      PROVE  TypeOK' /\ CacheSound'
  <2>1. Home[r] \in Instances
    OBVIOUS
  <2> QED
    BY <1>3, <2>1 DEF Lookup, TypeOK, CacheSound
<1>4. ASSUME NEW r \in Readers, ReadStore(r)
      PROVE  TypeOK' /\ CacheSound'
  BY <1>4 DEF ReadStore, TypeOK, CacheSound
<1>5. ASSUME NEW r \in Readers, Fill(r)
      PROVE  TypeOK' /\ CacheSound'
  <2>1. Home[r] \in Instances /\ meta[r] \in 1..latest /\ meta[r] \in Versions
    BY <1>5 DEF Fill, CacheSound, TypeOK
  <2>2. cache' \in [Instances -> Versions]
        /\ \A j \in Instances : cache'[j] <= latest
    <3>1. meta[r] <= latest /\ latest \in Versions
          /\ \A j \in Instances : cache[j] <= latest
      BY <2>1 DEF CacheSound, TypeOK
    <3> QED
      BY <1>5, <2>1, <3>1, FilledIsMax DEF Fill, TypeOK
  <2> QED
    BY <1>5, <2>2 DEF Fill, TypeOK, CacheSound
<1>6. ASSUME NEW i \in Instances, Poll(i)
      PROVE  TypeOK' /\ CacheSound'
  BY <1>6 DEF Poll, TypeOK, CacheSound
<1>7. ASSUME NEW i \in Instances, Refresh(i)
      PROVE  TypeOK' /\ CacheSound'
  <2>1. polled[i] \in 1..latest /\ polled[i] \in Versions
    BY <1>7 DEF Refresh, CacheSound, TypeOK
  <2>2. cache' \in [Instances -> Versions]
        /\ \A j \in Instances : cache'[j] <= latest
    <3>1. polled[i] <= latest /\ latest \in Versions
          /\ \A j \in Instances : cache[j] <= latest
      BY <2>1 DEF CacheSound, TypeOK
    <3> QED
      BY <1>7, <2>1, <3>1, FilledIsMax DEF Refresh, TypeOK
  <2> QED
    BY <1>7, <2>2 DEF Refresh, TypeOK, CacheSound
<1>8. CASE UNCHANGED vars
  BY <1>8 DEF vars, TypeOK, CacheSound
<1> QED
  BY <1>1, <1>2, <1>3, <1>4, <1>5, <1>6, <1>7, <1>8 DEF Next

LEMMA SoundInvariant == Spec => [](TypeOK /\ CacheSound)
  BY InitSound, StepSound, PTL DEF Spec

(* Entries, reads and polls stay versions, or the idle mark of a refresher.  *)
THEOREM TypeCorrect == Spec => []TypeOK
  BY SoundInvariant, PTL

(* Whatever is cached, or on its way into a cache, is a version that was     *)
(* published (GetPublished and refreshOne in cache.go).                      *)
THEOREM CacheHoldsPublished == Spec => []CacheSound
  BY SoundInvariant, PTL

(* A late fill never replaces a newer entry by an older one: the comparison  *)
(* under the lock in GetPublished and refreshOne.                            *)
THEOREM FillsNeverGoBack == Spec => NeverBackwards
<1> DEFINE Forward ==
      \A i \in Instances : cache[i] # 0 /\ cache'[i] # 0 => cache[i] <= cache'[i]
<1>1. TypeOK /\ CacheSound /\ [Next]_vars => [Forward]_vars
  <2> SUFFICES ASSUME TypeOK, CacheSound, Next
               PROVE  Forward
    OBVIOUS
  <2>1. ASSUME cache' = cache
        PROVE  Forward
    BY <2>1 DEF TypeOK, Versions
  <2>2. ASSUME NEW h \in Handlers, Invalidate(h)
        PROVE  Forward
    BY <2>2 DEF Invalidate, TypeOK, Versions
  <2>3. ASSUME NEW r \in Readers, Fill(r)
        PROVE  Forward
    <3>1. meta[r] \in Versions /\ Home[r] \in Instances
      BY DEF TypeOK
    <3> QED
      BY <2>3, <3>1, FilledIsMax DEF Fill, TypeOK
  <2>4. ASSUME NEW i \in Instances, Refresh(i)
        PROVE  Forward
    <3>1. polled[i] \in Versions
      BY <2>4 DEF Refresh, TypeOK
    <3> QED
      BY <2>4, <3>1, FilledIsMax DEF Refresh, TypeOK
  <2> QED
    BY <2>1, <2>2, <2>3, <2>4
       DEF Next, Commit, Lookup, ReadStore, Poll
<1> QED
  BY <1>1, SoundInvariant, PTL DEF Spec, NeverBackwards
=============================================================================
