---------------------------- MODULE BlockCacheProofs ----------------------------
(***************************************************************************)
(* The block cache, for any requests, prompts, models and capacity:         *)
(* reference counts are exact, the capacity is kept, tokens are recorded    *)
(* for exactly the cached blocks, and the events describe the cache.        *)
(***************************************************************************)
EXTENDS BlockCache, FiniteSetTheorems, TLAPS

\* Blocks of the registered request id.
Blocks(id) == ToSet(requestToBlocks[id])

\* The inductive invariant: the three properties and the finiteness that makes
\* cardinalities meaningful.
CacheInv ==
  /\ IsFiniteSet(DOMAIN requestToBlocks)
  /\ IsFiniteSet(Cached)
  /\ ReferenceCounts
  /\ CacheBounds
  /\ SubscriberView

------------------------------------------------------------------------------
(* Lemmas about the operators *)

\* A prompt has finitely many block keys.
LEMMA KeysFinite ==
  ASSUME NEW m \in Models, NEW p \in Prompts
  PROVE  IsFiniteSet(ToSet(BlockKeys(m, p)))
<1>1. Len(p) \in Nat /\ DOMAIN p = 1 .. Len(p)
  BY BlockCacheAssumption
<1>2. DOMAIN BlockKeys(m, p) = 1 .. Len(p)
  BY <1>1 DEF BlockKeys
<1>3. IsFiniteSet(1 .. Len(p))
  BY <1>1, FS_Interval
<1> DEFINE keys == BlockKeys(m, p)
           f == [i \in 1 .. Len(p) |-> keys[i]]
<1>4. f \in Surjection(1 .. Len(p), ToSet(keys))
  BY <1>2 DEF Surjection, ToSet
<1> QED
  BY <1>3, <1>4, FS_Surjection

\* The eviction loop picks only candidates, and as many different ones as it has
\* rounds.
LEMMA EvictedCount ==
  ASSUME NEW unused, NEW n \in Nat, NEW victims \in Evictions(unused, n)
  PROVE  /\ ToSet(victims) \subseteq unused
         /\ IsFiniteSet(ToSet(victims))
         /\ Cardinality(ToSet(victims)) = n
<1>1. victims \in [1 .. n -> unused]
  BY DEF Evictions
<1>2. \A i \in 1 .. n : victims[i] \in unused \ {victims[j] : j \in 1 .. (i-1)}
  BY DEF Evictions, pickBlockToEvict
<1>3. ASSUME NEW i \in 1 .. n, NEW j \in 1 .. n, victims[i] = victims[j]
      PROVE  i = j
  <2>1. CASE i < j
    <3>1. i \in 1 .. (j-1)
      BY <2>1
    <3> QED
      BY <3>1, <1>2, <1>3
  <2>2. CASE j < i
    <3>1. j \in 1 .. (i-1)
      BY <2>2
    <3> QED
      BY <3>1, <1>2, <1>3
  <2> QED
    BY <2>1, <2>2
<1>4. ToSet(victims) = {victims[i] : i \in 1 .. n}
  BY <1>1 DEF ToSet
<1>5. victims \in Bijection(1 .. n, ToSet(victims))
  BY <1>1, <1>3, <1>4 DEF Bijection, Injection, Surjection, IsInjective
<1>6. IsFiniteSet(1 .. n) /\ Cardinality(1 .. n) = n
  BY FS_Interval
<1> QED
  BY <1>1, <1>4, <1>5, <1>6, FS_Bijection DEF ExistsBijection

\* The number of blocks to evict is a natural number.
LEMMA ExcessType ==
  ASSUME CacheInv, NEW wanted, IsFiniteSet(wanted)
  PROVE  /\ IsFiniteSet(Cached \cup wanted)
         /\ Cardinality(Cached \cup wanted) \in Nat
         /\ Excess(wanted) \in Nat
         /\ Cardinality(Cached \cup wanted) - Excess(wanted) <= MaxBlocks
<1>1. IsFiniteSet(Cached \cup wanted)
  BY FS_Union DEF CacheInv
<1>2. Cardinality(Cached \cup wanted) \in Nat
  BY <1>1, FS_CardinalityType
<1> QED
  BY <1>1, <1>2, BlockCacheAssumption DEF Excess

------------------------------------------------------------------------------
(* Types *)

\* Every operation keeps the types; in particular no count drops to zero while
\* its block stays in use.
LEMMA TypeStep == TypeOK /\ [Next]_vars => TypeOK'
<1> SUFFICES ASSUME TypeOK, [Next]_vars PROVE TypeOK'
  OBVIOUS
<1>1. UNCHANGED <<cacheVars, view>> /\ loadedModels' \subseteq Models
        /\ disabled' \in BOOLEAN => TypeOK'
  BY DEF TypeOK, cacheVars, Used
<1>2. ASSUME NEW s \in Subs, NEW m \in Models, NEW p \in Prompts,
             startRequest(s, m, p)
      PROVE  TypeOK'
  <2> DEFINE id == RequestID(s)
             keys == BlockKeys(m, p)
             wanted == ToSet(keys)
             new == wanted \ Cached
             kept == unusedBlocks \ wanted
  <2>1. CASE UNCHANGED <<cacheVars, view>>
    BY <1>2, <2>1, <1>1 DEF startRequest, TypeOK
  <2>2. CASE Store(id, keys)
    <3>1. PICK gone :
            /\ usedBlocks' = [k \in Used \cup wanted |->
                                (IF k \in Used THEN usedBlocks[k] ELSE 0)
                                + (IF k \in wanted THEN 1 ELSE 0)]
            /\ unusedBlocks' = kept \ gone
            /\ older' = older \cap ((kept \ gone) \X (kept \ gone))
            /\ blockToTokens' = (blockToTokens \ gone) \cup new
            /\ requestToBlocks' = [i \in DOMAIN requestToBlocks \cup {id} |->
                                     IF i = id THEN keys ELSE requestToBlocks[i]]
            /\ Emit(gone, new)
      BY <2>2 DEF Store
    <3>2. wanted \subseteq Keys
      BY DEF Keys
    <3> HIDE DEF wanted
    <3>3. Used' = Used \cup wanted
      BY <3>1 DEF Used
    <3>4. \A k \in Used' : usedBlocks'[k] \in Nat \ {0}
      BY <3>1, <3>3 DEF TypeOK
    <3>5. view' \in (SUBSET Keys) \cup {None}
      BY <3>1, <3>2 DEF Emit, TypeOK
    <3>6. /\ DOMAIN requestToBlocks' \subseteq {RequestID(t) : t \in Subs}
          /\ \A i \in DOMAIN requestToBlocks' :
               requestToBlocks'[i] \in {BlockKeys(n, q) : n \in Models, q \in Prompts}
      BY <3>1 DEF TypeOK
    <3>7. unusedBlocks' \subseteq Keys /\ blockToTokens' \subseteq Keys
      BY <3>1, <3>2 DEF TypeOK
    <3>8. older' \subseteq unusedBlocks' \X unusedBlocks'
      BY <3>1
    <3>9. UNCHANGED <<loadedModels, disabled>>
      BY <1>2 DEF startRequest
    <3> QED
      BY <3>2, <3>3, <3>4, <3>5, <3>6, <3>7, <3>8, <3>9 DEF TypeOK
  <2> QED
    BY <1>2, <2>1, <2>2 DEF startRequest
<1>3. ASSUME NEW s \in Subs, finishRequest(s) PROVE TypeOK'
  <2>1. CASE UNCHANGED cacheVars
    BY <1>3, <2>1, <1>1 DEF finishRequest, TypeOK
  <2>2. CASE ~UNCHANGED cacheVars
    <3> DEFINE id == RequestID(s)
               mine == ToSet(requestToBlocks[id]) \cap Used
               last == LastReferences(mine)
    <3>1. /\ usedBlocks' = [k \in Used \ last |->
                              usedBlocks[k] - (IF k \in mine THEN 1 ELSE 0)]
          /\ unusedBlocks' = unusedBlocks \cup last
          /\ older' = older \cup (unusedBlocks \X last)
          /\ requestToBlocks' = [i \in DOMAIN requestToBlocks \ {id} |->
                                   requestToBlocks[i]]
          /\ UNCHANGED <<blockToTokens, loadedModels, disabled, view>>
      BY <1>3, <2>2 DEF finishRequest
    <3>2. last \subseteq Used /\ \A k \in mine \ last : usedBlocks[k] > 1
      BY DEF LastReferences, TypeOK
    <3> HIDE DEF last, mine
    <3>3. Used' = Used \ last
      BY <3>1 DEF Used
    <3>4. \A k \in Used' : usedBlocks'[k] \in Nat \ {0}
      BY <3>1, <3>2, <3>3 DEF TypeOK
    <3>5. older' \subseteq unusedBlocks' \X unusedBlocks'
      BY <3>1 DEF TypeOK
    <3> QED
      BY <3>1, <3>2, <3>3, <3>4, <3>5 DEF TypeOK
  <2> QED
    BY <2>1, <2>2
<1>4. CASE discard
  <2>1. /\ DOMAIN requestToBlocks' = {} /\ Used' = {} /\ unusedBlocks' = {}
        /\ older' = {} /\ blockToTokens' = {} /\ disabled' = TRUE
        /\ view' = {} \/ view' = None
        /\ UNCHANGED loadedModels
    BY <1>4 DEF discard, EmptyMap, Used
  <2> QED
    BY <2>1 DEF TypeOK
<1>5. CASE activate
  <2>1. UNCHANGED <<cacheVars, view, loadedModels>> /\ disabled' = FALSE
    BY <1>5 DEF activate
  <2>2. loadedModels \subseteq Models
    BY DEF TypeOK
  <2> QED
    BY <2>1, <2>2, <1>1
<1>6. ASSUME NEW l \in Loras, setModelLoaded(l) \/ setModelUnloaded(l)
      PROVE  TypeOK'
  BY <1>6, <1>1 DEF setModelLoaded, setModelUnloaded, TypeOK, Models
<1>7. CASE UNCHANGED vars
  BY <1>7, <1>1 DEF vars, TypeOK
<1> QED
  BY <1>2, <1>3, <1>4, <1>5, <1>6, <1>7 DEF Next

\* The types of the cache's maps, in every reachable state.
THEOREM TypeCorrect == Spec => []TypeOK
<1>1. Init => TypeOK
  <2> SUFFICES ASSUME Init PROVE TypeOK
    OBVIOUS
  <2>1. /\ DOMAIN requestToBlocks = {} /\ Used = {} /\ unusedBlocks = {}
        /\ older = {} /\ blockToTokens = {} /\ disabled = FALSE
        /\ view = {} /\ loadedModels = {Base}
    BY DEF Init, EmptyMap, Used
  <2>2. loadedModels \subseteq Models /\ disabled \in BOOLEAN
    BY <2>1 DEF Models
  <2>3. view \in (SUBSET Keys) \cup {None} /\ older \subseteq unusedBlocks \X unusedBlocks
    BY <2>1
  <2> QED
    BY <2>1, <2>2, <2>3 DEF TypeOK
<1> QED
  BY <1>1, TypeStep, PTL DEF Spec

------------------------------------------------------------------------------
(* The operations preserve the invariant *)

\* startRequest adds one holder to each wanted block, and leaves at most MaxBlocks
\* blocks, because it evicts exactly the excess.
LEMMA StoreStep ==
  ASSUME CacheInv, NEW id, id \notin DOMAIN requestToBlocks, NEW keys,
         IsFiniteSet(ToSet(keys)), Store(id, keys)
  PROVE  CacheInv'
<1> DEFINE wanted == ToSet(keys)
           new == wanted \ Cached
           kept == unusedBlocks \ wanted
<1>1. PICK victims \in Evictions(kept, Excess(wanted)) :
        LET gone == ToSet(victims)
            rest == kept \ gone IN
        /\ usedBlocks' = [k \in Used \cup wanted |->
                            (IF k \in Used THEN usedBlocks[k] ELSE 0)
                            + (IF k \in wanted THEN 1 ELSE 0)]
        /\ unusedBlocks' = rest
        /\ blockToTokens' = (blockToTokens \ gone) \cup new
        /\ requestToBlocks' = [i \in DOMAIN requestToBlocks \cup {id} |->
                                 IF i = id THEN keys ELSE requestToBlocks[i]]
        /\ Emit(gone, new)
  BY DEF Store
<1> DEFINE gone == ToSet(victims)
<1> HIDE DEF wanted, new, kept, gone
<1>2. /\ Excess(wanted) \in Nat
      /\ IsFiniteSet(Cached \cup wanted)
      /\ Cardinality(Cached \cup wanted) \in Nat
      /\ Cardinality(Cached \cup wanted) - Excess(wanted) <= MaxBlocks
  BY ExcessType DEF wanted
<1>3. gone \subseteq kept /\ IsFiniteSet(gone) /\ Cardinality(gone) = Excess(wanted)
  BY <1>2, EvictedCount DEF gone
<1>4. Used' = Used \cup wanted /\ unusedBlocks' = kept \ gone
  BY <1>1 DEF Used, gone, kept
<1>5. Cached' = (Cached \cup wanted) \ gone
  BY <1>3, <1>4 DEF Cached, kept, CacheInv, CacheBounds
<1>6. DOMAIN requestToBlocks' = DOMAIN requestToBlocks \cup {id}
  BY <1>1
<1>7. IsFiniteSet((DOMAIN requestToBlocks)')
  BY <1>6, FS_AddElement DEF CacheInv
<1>8. IsFiniteSet(Cached') /\ Cardinality(Cached') <= MaxBlocks
  <2>1. gone \subseteq Cached \cup wanted
    BY <1>3 DEF kept, Cached
  <2>2. Cached' \cap gone = {} /\ Cached' \cup gone = Cached \cup wanted
    BY <2>1, <1>5
  <2>3. IsFiniteSet(Cached')
    BY <1>2, <1>5, FS_Subset
  <2>4. Cardinality(Cached \cup wanted)
          = Cardinality(Cached') + Cardinality(gone) - Cardinality({})
    BY <2>2, <2>3, <1>3, FS_Union
  <2>5. Cardinality(Cached') \in Nat
    BY <2>3, FS_CardinalityType
  <2> QED
    BY <2>3, <2>4, <2>5, <1>2, <1>3, FS_EmptySet, BlockCacheAssumption
<1>9. ReferenceCounts'
  <2>1. \A k : Holders(k)' = IF k \in wanted THEN Holders(k) \cup {id} ELSE Holders(k)
    BY <1>1, <1>6 DEF Holders, wanted
  <2>2. \A k : IsFiniteSet(Holders(k)) /\ id \notin Holders(k)
    BY FS_Subset DEF Holders, CacheInv
  <2>3. \A k : k \notin Used => Holders(k) = {}
    BY DEF Holders, CacheInv, ReferenceCounts
  <2>4. ASSUME NEW k \in Used' PROVE usedBlocks'[k] = Cardinality(Holders(k)')
    <3>1. usedBlocks'[k] = (IF k \in Used THEN usedBlocks[k] ELSE 0)
                           + (IF k \in wanted THEN 1 ELSE 0)
      BY <2>4, <1>1, <1>4 DEF wanted
    <3>2. k \in Used => usedBlocks[k] = Cardinality(Holders(k))
      BY DEF CacheInv, ReferenceCounts
    <3>3. k \notin Used => Cardinality(Holders(k)) = 0
      BY <2>3, FS_EmptySet
    <3>4. Cardinality(Holders(k)) \in Nat
      BY <2>2, FS_CardinalityType
    <3>5. Cardinality(Holders(k) \cup {id}) = Cardinality(Holders(k)) + 1
      BY <2>2, FS_AddElement
    <3>6. CASE k \in wanted
      <4>1. Holders(k)' = Holders(k) \cup {id}
        BY <3>6, <2>1
      <4>2. usedBlocks'[k] = Cardinality(Holders(k)) + 1
        BY <3>1, <3>2, <3>3, <3>4, <3>6
      <4> QED
        BY <4>1, <4>2, <3>5
    <3>7. CASE k \notin wanted
      <4>1. Holders(k)' = Holders(k)
        BY <3>7, <2>1
      <4>2. usedBlocks'[k] = Cardinality(Holders(k))
        BY <3>1, <3>2, <3>3, <3>4, <3>7
      <4> QED
        BY <4>1, <4>2
    <3> QED
      BY <3>6, <3>7
  <2>5. \A i \in DOMAIN requestToBlocks :
          i # id /\ requestToBlocks'[i] = requestToBlocks[i]
    BY <1>1
  <2>6. requestToBlocks'[id] = keys
    BY <1>1
  <2>7. Used' = UNION {ToSet(requestToBlocks'[i]) : i \in DOMAIN requestToBlocks'}
    BY <1>4, <1>6, <2>5, <2>6 DEF CacheInv, ReferenceCounts, wanted
  <2> QED
    BY <2>4, <2>7 DEF ReferenceCounts
<1>10. CacheBounds'
  <2>1. Used' \cap unusedBlocks' = {}
    BY <1>4 DEF CacheInv, CacheBounds, kept
  <2>2. gone \cap wanted = {}
    BY <1>3 DEF kept
  <2>3. blockToTokens' = Cached'
    BY <1>1, <1>5, <2>2 DEF CacheInv, CacheBounds, new, gone, wanted
  <2> QED
    BY <2>1, <2>3, <1>8 DEF CacheBounds
<1>11. SubscriberView'
  <2>1. gone \cap wanted = {}
    BY <1>3 DEF kept
  <2>2. view' # None => view # None /\ view' = (view \ gone) \cup new
    BY <1>1 DEF Emit, gone, new, wanted
  <2> QED
    BY <2>1, <2>2, <1>5 DEF CacheInv, SubscriberView, new
<1> QED
  BY <1>7, <1>8, <1>9, <1>10, <1>11 DEF CacheInv

\* finishRequest removes one holder from each block of the request; the blocks
\* that were held by it alone become unused, and nothing leaves the cache.
LEMMA FinishStep ==
  ASSUME CacheInv, NEW s \in Subs, finishRequest(s)
  PROVE  CacheInv'
<1> DEFINE id == RequestID(s)
           mine == Blocks(id)
           last == LastReferences(mine)
<1>1. CASE disabled \/ id \notin DOMAIN requestToBlocks
  <2>1. UNCHANGED <<cacheVars, view>>
    BY <1>1 DEF finishRequest, LastReferences
  <2> QED
    BY <2>1 DEF cacheVars, CacheInv, ReferenceCounts, CacheBounds, SubscriberView,
                Cached, Used, Holders
<1>2. CASE ~disabled /\ id \in DOMAIN requestToBlocks
  <2>1. mine \subseteq Used
    BY <1>2 DEF CacheInv, ReferenceCounts, Blocks
  <2>2. /\ usedBlocks' = [k \in Used \ last |->
                            usedBlocks[k] - (IF k \in mine THEN 1 ELSE 0)]
        /\ unusedBlocks' = unusedBlocks \cup last
        /\ requestToBlocks' = [i \in DOMAIN requestToBlocks \ {id} |->
                                 requestToBlocks[i]]
        /\ UNCHANGED <<blockToTokens, view>>
    <3>1. mine \cap Used = mine
      BY <2>1
    <3> QED
      BY <1>2, <3>1 DEF finishRequest, Blocks
  <2>3. last \subseteq mine /\ \A k \in mine : k \in last <=> usedBlocks[k] <= 1
    BY DEF LastReferences
  <2> HIDE DEF last
  <2>4. Used' = Used \ last
    BY <2>2 DEF Used
  <2>5. Cached' = Cached
    BY <2>1, <2>2, <2>3, <2>4 DEF Cached
  <2>6. DOMAIN requestToBlocks' = DOMAIN requestToBlocks \ {id}
    BY <2>2
  <2>7. IsFiniteSet((DOMAIN requestToBlocks)')
    BY <2>6, FS_RemoveElement DEF CacheInv
  <2>8. \A k : Holders(k)' = Holders(k) \ {id}
    BY <2>2, <2>6 DEF Holders
  <2>9. \A k : IsFiniteSet(Holders(k)) /\ (k \in mine <=> id \in Holders(k))
    BY <1>2, FS_Subset DEF Holders, CacheInv, Blocks
  <2>10. ASSUME NEW k \in Used \ last
         PROVE  usedBlocks'[k] = Cardinality(Holders(k)')
    <3>1. usedBlocks[k] = Cardinality(Holders(k))
      BY DEF CacheInv, ReferenceCounts
    <3>2. Cardinality(Holders(k)) \in Nat
      BY <2>9, FS_CardinalityType
    <3>3. Cardinality(Holders(k) \ {id})
            = IF id \in Holders(k) THEN Cardinality(Holders(k)) - 1
              ELSE Cardinality(Holders(k))
      BY <2>9, FS_RemoveElement
    <3>4. Holders(k)' = Holders(k) \ {id}
      BY <2>8
    <3>5. usedBlocks'[k] = usedBlocks[k] - (IF id \in Holders(k) THEN 1 ELSE 0)
      BY <2>2, <2>9
    <3>6. usedBlocks'[k] = Cardinality(Holders(k) \ {id})
      BY <3>1, <3>2, <3>3, <3>5
    <3> QED
      BY <3>4, <3>6
  <2>11. \A k \in Used : k \in last <=> Holders(k) = {id}
    <3> SUFFICES ASSUME NEW k \in Used PROVE k \in last <=> Holders(k) = {id}
      OBVIOUS
    <3>1. usedBlocks[k] = Cardinality(Holders(k)) /\ Cardinality(Holders(k)) \in Nat
      BY <2>9, FS_CardinalityType DEF CacheInv, ReferenceCounts
    <3>2. k \in last <=> id \in Holders(k) /\ Cardinality(Holders(k)) <= 1
      BY <2>3, <2>9, <3>1
    <3>3. id \in Holders(k) => Cardinality(Holders(k)) # 0
      BY <2>9, FS_EmptySet
    <3>4. Cardinality(Holders(k)) = 1 <=> \E x : Holders(k) = {x}
      BY <2>9, FS_Singleton
    <3> QED
      BY <3>1, <3>2, <3>3, <3>4
  <2>12. Used' = UNION {ToSet(requestToBlocks'[i]) : i \in DOMAIN requestToBlocks'}
    <3>1. \A k : k \in Used <=> Holders(k) # {}
      BY DEF CacheInv, ReferenceCounts, Holders
    <3>2. \A k : k \in Used' <=> Holders(k)' # {}
      BY <3>1, <2>4, <2>8, <2>11
    <3> QED
      BY <3>2 DEF Holders
  <2>13. ReferenceCounts'
    BY <2>4, <2>10, <2>12 DEF ReferenceCounts
  <2>14. Used' \cap unusedBlocks' = {}
    BY <2>2, <2>4 DEF CacheInv, CacheBounds
  <2> QED
    BY <2>2, <2>5, <2>7, <2>13, <2>14 DEF CacheInv, CacheBounds, SubscriberView
<1> QED
  BY <1>1, <1>2

\* discard empties everything, and tells the subscribers.
LEMMA DiscardStep ==
  ASSUME CacheInv, discard
  PROVE  CacheInv'
<1>1. /\ DOMAIN requestToBlocks' = {}
      /\ Used' = {} /\ unusedBlocks' = {} /\ blockToTokens' = {}
      /\ view' # None => view' = {}
  BY DEF discard, EmptyMap, Used
<1>2. Cached' = {}
  BY <1>1 DEF Cached
<1> QED
  BY <1>1, <1>2, FS_EmptySet, BlockCacheAssumption
  DEF CacheInv, ReferenceCounts, CacheBounds, SubscriberView

------------------------------------------------------------------------------
(* The theorems *)

\* A step of the cache preserves the invariant.
LEMMA CacheStep == CacheInv /\ [Next]_vars => CacheInv'
<1> SUFFICES ASSUME CacheInv, [Next]_vars PROVE CacheInv'
  OBVIOUS
<1> DEFINE Same == UNCHANGED <<cacheVars, view>>
<1>1. Same => CacheInv'
  BY DEF cacheVars, CacheInv, ReferenceCounts, CacheBounds, SubscriberView, Cached,
         Used, Holders
<1>2. ASSUME NEW s \in Subs, NEW m \in Models, NEW p \in Prompts,
             startRequest(s, m, p)
      PROVE  CacheInv'
  <2>1. \/ Same
        \/ /\ RequestID(s) \notin DOMAIN requestToBlocks
           /\ Store(RequestID(s), BlockKeys(m, p))
    BY <1>2 DEF startRequest
  <2> QED
    BY <2>1, <1>1, StoreStep, KeysFinite
<1>3. ASSUME NEW s \in Subs, finishRequest(s) PROVE CacheInv'
  BY <1>3, FinishStep
<1>4. CASE discard
  BY <1>4, DiscardStep
<1>5. CASE activate
  BY <1>5, <1>1 DEF activate
<1>6. ASSUME NEW l \in Loras, setModelLoaded(l) \/ setModelUnloaded(l)
      PROVE  CacheInv'
  BY <1>6, <1>1 DEF setModelLoaded, setModelUnloaded
<1>7. CASE UNCHANGED vars
  BY <1>7, <1>1 DEF vars
<1> QED
  BY <1>2, <1>3, <1>4, <1>5, <1>6, <1>7 DEF Next

\* The invariant holds throughout.
LEMMA CacheCorrect == Spec => []CacheInv
<1>1. Init => CacheInv
  <2> SUFFICES ASSUME Init PROVE CacheInv
    OBVIOUS
  <2>1. /\ DOMAIN requestToBlocks = {} /\ Used = {} /\ Cached = {}
        /\ unusedBlocks = {} /\ blockToTokens = {} /\ view = {}
    BY DEF Init, EmptyMap, Used, Cached
  <2> QED
    BY <2>1, FS_EmptySet, BlockCacheAssumption
    DEF CacheInv, ReferenceCounts, CacheBounds, SubscriberView
<1> QED
  BY <1>1, CacheStep, PTL DEF Spec

\* The count of a used block is the number of registered requests with that block.
THEOREM ReferenceCountsCorrect == Spec => []ReferenceCounts
<1>1. CacheInv => ReferenceCounts
  BY DEF CacheInv
<1> QED
  BY <1>1, CacheCorrect, PTL

\* The cache never exceeds --kv-cache-size, used and unused blocks are disjoint,
\* and tokens are recorded for exactly the cached blocks.
THEOREM CacheBoundsCorrect == Spec => []CacheBounds
<1>1. CacheInv => CacheBounds
  BY DEF CacheInv
<1> QED
  BY <1>1, CacheCorrect, PTL

\* As long as no event was dropped, the events describe the cache exactly.
THEOREM SubscriberViewCorrect == Spec => []SubscriberView
<1>1. CacheInv => SubscriberView
  BY DEF CacheInv
<1> QED
  BY <1>1, CacheCorrect, PTL

------------------------------------------------------------------------------
(* Running requests keep their blocks, if request ids are unique *)

\* What a worker was given is what is registered under its id.
WorkInv ==
  /\ work = [s \in Subs |-> work[s]]
  /\ \A s \in Subs :
       \/ work[s] = None
       \/ work[s] = <<>>
       \/ /\ RequestID(s) \in DOMAIN requestToBlocks
          /\ requestToBlocks[RequestID(s)] = work[s]

\* With one choice per call every sub-request has an id of its own.
LEMMA UniqueIDs ==
  ASSUME NumChoices = 1, NEW s \in Subs, NEW t \in Subs, RequestID(s) = RequestID(t)
  PROVE  s = t
<1>1. PICK c \in Calls, i \in 1 .. 1 : s = <<c, i>>
  BY DEF Subs
<1>2. PICK d \in Calls, j \in 1 .. 1 : t = <<d, j>>
  BY DEF Subs
<1>3. i = 1 /\ j = 1
  OBVIOUS
<1> QED
  BY <1>1, <1>2, <1>3 DEF RequestID

\* A request is registered under its id by its own worker alone, and until that
\* worker ends it or the cache is discarded.
LEMMA WorkStep == NumChoices = 1 /\ WorkInv /\ [Next]_vars => WorkInv'
<1> SUFFICES ASSUME NumChoices = 1, WorkInv, [Next]_vars PROVE WorkInv'
  OBVIOUS
<1> DEFINE Same == UNCHANGED <<requestToBlocks, work>>
<1>1. Same => WorkInv'
  BY DEF WorkInv
<1>2. ASSUME NEW s \in Subs, NEW m \in Models, NEW p \in Prompts,
             startRequest(s, m, p)
      PROVE  WorkInv'
  <2>1. CASE work' = [work EXCEPT ![s] = <<>>] /\ UNCHANGED requestToBlocks
    BY <2>1 DEF WorkInv
  <2>2. CASE /\ work' = [work EXCEPT ![s] = BlockKeys(m, p)]
             /\ RequestID(s) \notin DOMAIN requestToBlocks
             /\ Store(RequestID(s), BlockKeys(m, p))
    <3>1. requestToBlocks' = [i \in DOMAIN requestToBlocks \cup {RequestID(s)} |->
                                IF i = RequestID(s) THEN BlockKeys(m, p)
                                ELSE requestToBlocks[i]]
      BY <2>2 DEF Store
    <3>2. \A t \in Subs : t # s => RequestID(t) # RequestID(s)
      BY UniqueIDs
    <3> QED
      BY <2>2, <3>1, <3>2 DEF WorkInv
  <2> QED
    BY <1>2, <2>1, <2>2 DEF startRequest, cacheVars
<1>3. ASSUME NEW s \in Subs, finishRequest(s) PROVE WorkInv'
  <2>1. work' = [work EXCEPT ![s] = None]
    BY <1>3 DEF finishRequest
  <2>2. \/ UNCHANGED requestToBlocks
        \/ requestToBlocks' = [i \in DOMAIN requestToBlocks \ {RequestID(s)} |->
                                 requestToBlocks[i]]
    BY <1>3 DEF finishRequest, cacheVars
  <2>3. \A t \in Subs : t # s => RequestID(t) # RequestID(s)
    BY UniqueIDs
  <2> QED
    BY <2>1, <2>2, <2>3 DEF WorkInv
<1>4. CASE discard
  BY <1>4 DEF discard, WorkInv
<1>5. CASE activate
  BY <1>5, <1>1 DEF activate, cacheVars
<1>6. ASSUME NEW l \in Loras, setModelLoaded(l) \/ setModelUnloaded(l)
      PROVE  WorkInv'
  BY <1>6, <1>1 DEF setModelLoaded, setModelUnloaded, cacheVars
<1>7. CASE UNCHANGED vars
  BY <1>7, <1>1 DEF vars, cacheVars
<1> QED
  BY <1>2, <1>3, <1>4, <1>5, <1>6, <1>7 DEF Next

\* With unique request ids (here: one choice per call), the blocks given to a
\* running request stay in use, and so out of reach of eviction, until it ends.
THEOREM ActiveBlocksCorrect ==
  ASSUME NumChoices = 1
  PROVE  Spec => []ActiveBlocksInUse
<1>1. Init => WorkInv
  BY DEF Init, WorkInv
<1>2. WorkInv /\ [Next]_vars => WorkInv'
  BY WorkStep
<1>3. CacheInv /\ WorkInv => ActiveBlocksInUse
  <2> SUFFICES ASSUME CacheInv, WorkInv, NEW s \in Subs, work[s] # None
               PROVE  ToSet(work[s]) \subseteq Used
    BY DEF ActiveBlocksInUse
  <2>1. CASE work[s] = <<>>
    BY <2>1 DEF ToSet
  <2>2. CASE /\ RequestID(s) \in DOMAIN requestToBlocks
             /\ requestToBlocks[RequestID(s)] = work[s]
    BY <2>2 DEF CacheInv, ReferenceCounts
  <2> QED
    BY <2>1, <2>2 DEF WorkInv
<1> QED
  BY <1>1, <1>2, <1>3, CacheCorrect, PTL DEF Spec

------------------------------------------------------------------------------
(* The eviction priority *)

\* A block of a loaded model is evicted only when the unused blocks that are left
\* are all of loaded models.
LEMMA EvictionStep ==
  ASSUME NEW unused, NEW n \in Nat, NEW victims \in Evictions(unused, n),
         NEW k \in ToSet(victims), k[1] \in loadedModels
  PROVE  \A j \in unused \ ToSet(victims) : j[1] \in loadedModels
<1>1. victims \in [1 .. n -> unused]
  BY DEF Evictions
<1>2. PICK i \in 1 .. n : k = victims[i]
  BY <1>1 DEF ToSet
<1> DEFINE left == unused \ {victims[j] : j \in 1 .. (i-1)}
<1>3. k \in pickBlockToEvict(left)
  BY <1>2 DEF Evictions
<1>4. {j \in left : j[1] \notin loadedModels} = {}
  BY <1>3 DEF pickBlockToEvict
<1>5. unused \ ToSet(victims) \subseteq left
  BY <1>1 DEF ToSet
<1> QED
  BY <1>4, <1>5

\* pickBlockToEvict prefers blocks of unloaded models, through a whole request.
THEOREM EvictionPriorityCorrect == Spec => EvictionPriority
<1> DEFINE Lost == disabled' = disabled
                   /\ (\E k \in Cached \ Cached' : k[1] \in loadedModels)
           A == Lost => \A k \in unusedBlocks' : k[1] \in loadedModels
<1>1. CacheInv /\ [Next]_vars => A \/ UNCHANGED vars
  <2> SUFFICES ASSUME CacheInv, Next, Lost
               PROVE  \A k \in unusedBlocks' : k[1] \in loadedModels
    OBVIOUS
  <2>1. UNCHANGED <<usedBlocks, unusedBlocks>> => FALSE
    BY DEF Cached, Used
  <2>2. ASSUME NEW s \in Subs, NEW m \in Models, NEW p \in Prompts,
               startRequest(s, m, p)
        PROVE  \A k \in unusedBlocks' : k[1] \in loadedModels
    <3> DEFINE wanted == ToSet(BlockKeys(m, p))
               kept == unusedBlocks \ wanted
    <3>1. Store(RequestID(s), BlockKeys(m, p))
      BY <2>1, <2>2 DEF startRequest, cacheVars
    <3>2. PICK victims \in Evictions(kept, Excess(wanted)) :
            /\ DOMAIN usedBlocks' = Used \cup wanted
            /\ unusedBlocks' = kept \ ToSet(victims)
      BY <3>1 DEF Store
    <3>3. Excess(wanted) \in Nat
      BY KeysFinite, ExcessType
    <3>4. Cached \ Cached' \subseteq ToSet(victims)
      BY <3>2 DEF Cached, Used
    <3> HIDE DEF wanted, kept
    <3>5. \E k \in ToSet(victims) : k[1] \in loadedModels
      BY <3>4
    <3> QED
      BY <3>2, <3>3, <3>5, EvictionStep
  <2>3. ASSUME NEW s \in Subs, finishRequest(s) PROVE FALSE
    <3>1. Cached \subseteq Cached'
      BY <2>3 DEF finishRequest, Cached, Used, cacheVars, LastReferences
    <3> QED
      BY <3>1
  <2>4. CASE discard
    BY <2>4 DEF discard
  <2>5. CASE activate
    BY <2>5, <2>1 DEF activate, cacheVars
  <2>6. ASSUME NEW l \in Loras, setModelLoaded(l) \/ setModelUnloaded(l)
        PROVE  FALSE
    BY <2>6, <2>1 DEF setModelLoaded, setModelUnloaded, cacheVars
  <2> QED
    BY <2>2, <2>3, <2>4, <2>5, <2>6 DEF Next
<1>2. CacheInv /\ [Next]_vars => [A]_vars
  BY <1>1
<1> QED
  BY <1>2, CacheCorrect, PTL DEF Spec, EvictionPriority
=============================================================================
