------------------------------ MODULE BlockCache ------------------------------
(***************************************************************************)
(* The simulated KV cache: pkg/kvcache/block_cache.go, as the request       *)
(* workers, the LoRA loader and the sleep endpoints drive it.  Every        *)
(* operation runs under blockCache.mu, so each is one action.               *)
(*                                                                         *)
(* A block hash is chained: it stands for the model and the whole prompt    *)
(* prefix that ends with the block.  A key is therefore <<model, prefix>>.  *)
(* Timestamps of unused blocks are abstracted to their order, the relation  *)
(* older.  The blocks that one finishRequest releases carry the same `now'  *)
(* and are not ordered; successive readings of the clock differ.            *)
(***************************************************************************)
EXTENDS Integers, Sequences, FiniteSets, SequencesExt

CONSTANTS
  Calls,           \* client calls being processed
  NumChoices,      \* choices of a call; each is a sub-request of its own
  Prompts,         \* prompts, as sequences of full blocks
  Base,            \* the base model
  Loras,           \* LoRA models
  MaxBlocks,       \* --kv-cache-size
  None

ASSUME BlockCacheAssumption ==
  /\ MaxBlocks \in Nat
  /\ NumChoices \in Nat \ {0}
  /\ Base \notin Loras
  /\ \A p \in Prompts : Len(p) \in Nat /\ DOMAIN p = 1 .. Len(p)

VARIABLES
  requestToBlocks, \* map request id -> its block keys, in prompt order
  usedBlocks,      \* map key -> reference count
  unusedBlocks,    \* keys that no request uses
  older,           \* pairs of unused keys, the first with the earlier timestamp
  blockToTokens,   \* keys that have tokens recorded
  loadedModels,
  disabled,
  view,            \* keys a subscriber holds once it has all events sent so far,
                   \* None after an event was dropped
  work             \* sub-request -> what its worker is doing with the cache

cacheVars == <<requestToBlocks, usedBlocks, unusedBlocks, older, blockToTokens>>
vars == <<cacheVars, loadedModels, disabled, view, work>>

Models == Loras \cup {Base}
Subs   == Calls \X (1 .. NumChoices)

\* split() copies the request (chat) or stamps "<requestID>-<prompt index>"
\* (text); either way the choices of one prompt share their request id.
RequestID(s) == s[1]

\* TokensToKVBlockKeys: the chained keys of a prompt's full blocks.
BlockKeys(m, p) == [i \in DOMAIN p |-> <<m, SubSeq(p, 1, i)>>]

Keys == UNION {ToSet(BlockKeys(m, p)) : m \in Models, p \in Prompts}

EmptyMap == [k \in {} |-> 0]

Used   == DOMAIN usedBlocks
Cached == Used \cup unusedBlocks

\* (variant) evictions are not reported.
Emit_NoRemoved(removed, stored) ==
  \/ view # None /\ view' = view \cup stored
  \/ (view = None \/ removed \cup stored # {}) /\ view' = None

\* common.WriteToChannel(bc.eventChan, ...): one event per removed key, then one
\* for the stored keys.  The sender drains eventChan concurrently, so any of them
\* may find it full and be dropped.
Emit(removed, stored) ==
  \/ view # None /\ view' = (view \ removed) \cup stored
  \/ (view = None \/ removed \cup stored # {}) /\ view' = None

------------------------------------------------------------------------------
(* Eviction *)

\* (variant) the oldest block, of whatever model.
pickBlockToEvict_AnyModel(unused) ==
  {k \in unused : \A j \in unused : <<j, k>> \notin older}

\* The candidates of pickBlockToEvict: the oldest of the unloaded models if
\* there are any, else the oldest.  Among equal timestamps Go's map iteration
\* decides.
pickBlockToEvict(unused) ==
  LET unloaded == {k \in unused : k[1] \notin loadedModels}
      pool == IF unloaded # {} THEN unloaded ELSE unused
  IN {k \in pool : \A j \in pool : <<j, k>> \notin older}

\* The sequences of victims that n rounds of the loop may pick.
Evictions(unused, n) ==
  {s \in [1 .. n -> unused] :
     \A i \in 1 .. n :
       s[i] \in pickBlockToEvict(unused \ {s[j] : j \in 1 .. (i-1)})}

------------------------------------------------------------------------------
(* The operations of the cache *)

\* (variant) off by one at a full cache.
Excess_OffByOne(wanted) ==
  LET n == Cardinality(Cached \cup wanted) - MaxBlocks - 1
  IN IF n > 0 THEN n ELSE 0

\* Blocks to evict before all of `wanted' is in the cache.
Excess(wanted) ==
  LET n == Cardinality(Cached \cup wanted) - MaxBlocks
  IN IF n > 0 THEN n ELSE 0

\* startRequest when it succeeds: reference what is cached, evict what is in the
\* way of the new blocks, add those, and register the request.
Store(id, keys) ==
  LET wanted == ToSet(keys)
      new    == wanted \ Cached
      kept   == unusedBlocks \ wanted
  IN \E victims \in Evictions(kept, Excess(wanted)) :
       LET gone == ToSet(victims)
           rest == kept \ gone IN
       /\ usedBlocks' = [k \in Used \cup wanted |->
                           (IF k \in Used THEN usedBlocks[k] ELSE 0)
                           + (IF k \in wanted THEN 1 ELSE 0)]
       /\ unusedBlocks' = rest
       /\ older' = older \cap (rest \X rest)
       /\ blockToTokens' = (blockToTokens \ gone) \cup new
       /\ requestToBlocks' = [i \in DOMAIN requestToBlocks \cup {id} |->
                                IF i = id THEN keys ELSE requestToBlocks[i]]
       /\ Emit(gone, new)

\* A worker enters OnRequestStart for sub-request s.
startRequest(s, m, p) ==
  LET id == RequestID(s)
      keys == BlockKeys(m, p)
      fits == Cardinality(Used \cup ToSet(keys)) <= MaxBlocks
  IN
  /\ work[s] = None
  /\ \/ /\ disabled
        /\ work' = [work EXCEPT ![s] = <<>>]
        /\ UNCHANGED <<cacheVars, view>>
     \/ /\ ~disabled
        /\ id \in DOMAIN requestToBlocks \/ ~fits
        /\ work' = [work EXCEPT ![s] = <<>>]
        /\ UNCHANGED <<cacheVars, view>>
     \/ /\ ~disabled
        /\ id \notin DOMAIN requestToBlocks /\ fits
        /\ work' = [work EXCEPT ![s] = keys]
        /\ Store(id, keys)
  /\ UNCHANGED <<loadedModels, disabled>>

\* (variant) a block with two references is released.
LastReferences_Early(mine) == {k \in mine : usedBlocks[k] <= 2}

\* (variant) every block of the request is released.
LastReferences_All(mine) == mine

\* The blocks of a finishing request that no other request uses.
LastReferences(mine) == {k \in mine : usedBlocks[k] <= 1}

\* OnRequestEnd, which the worker calls whether or not the start succeeded.
finishRequest(s) ==
  LET id == RequestID(s)
      mine == IF id \in DOMAIN requestToBlocks
              THEN ToSet(requestToBlocks[id]) \cap Used ELSE {}
      last == LastReferences(mine)
  IN
  /\ work[s] # None
  /\ work' = [work EXCEPT ![s] = None]
  /\ IF disabled \/ id \notin DOMAIN requestToBlocks
     THEN UNCHANGED cacheVars
     ELSE /\ usedBlocks' = [k \in Used \ last |->
                              usedBlocks[k] - (IF k \in mine THEN 1 ELSE 0)]
          /\ unusedBlocks' = unusedBlocks \cup last
          /\ older' = older \cup (unusedBlocks \X last)
          /\ requestToBlocks' = [i \in DOMAIN requestToBlocks \ {id} |->
                                   requestToBlocks[i]]
          /\ UNCHANGED blockToTokens
  /\ UNCHANGED <<loadedModels, disabled, view>>

\* POST /sleep.  The workers' requests lose their blocks.
discard ==
  /\ disabled' = TRUE
  /\ requestToBlocks' = EmptyMap
  /\ usedBlocks' = EmptyMap
  /\ unusedBlocks' = {}
  /\ older' = {}
  /\ blockToTokens' = {}
  /\ \/ view # None /\ view' = {}
     \/ view' = None
  /\ work' = [s \in Subs |-> IF work[s] = None THEN None ELSE <<>>]
  /\ UNCHANGED loadedModels

\* POST /wake_up
activate ==
  /\ disabled' = FALSE
  /\ UNCHANGED <<cacheVars, loadedModels, view, work>>

\* loadLora evicts one LoRA and loads another.
setModelLoaded(l) ==
  /\ loadedModels' = loadedModels \cup {l}
  /\ UNCHANGED <<cacheVars, disabled, view, work>>

setModelUnloaded(l) ==
  /\ loadedModels' = loadedModels \ {l}
  /\ UNCHANGED <<cacheVars, disabled, view, work>>

------------------------------------------------------------------------------
Init ==
  /\ requestToBlocks = EmptyMap
  /\ usedBlocks = EmptyMap
  /\ unusedBlocks = {}
  /\ older = {}
  /\ blockToTokens = {}
  /\ loadedModels = {Base}
  /\ disabled = FALSE
  /\ view = {}
  /\ work = [s \in Subs |-> None]

Next ==
  \/ \E s \in Subs, m \in Models, p \in Prompts : startRequest(s, m, p)
  \/ \E s \in Subs : finishRequest(s)
  \/ discard
  \/ activate
  \/ \E l \in Loras : setModelLoaded(l) \/ setModelUnloaded(l)

Spec == Init /\ [][Next]_vars

------------------------------------------------------------------------------
(* Properties *)

\* Requests that hold key k according to requestToBlocks.
Holders(k) == {id \in DOMAIN requestToBlocks : k \in ToSet(requestToBlocks[id])}

\* Types of the cache's maps.
TypeOK ==
  /\ DOMAIN requestToBlocks \subseteq {RequestID(s) : s \in Subs}
  /\ \A id \in DOMAIN requestToBlocks :
       requestToBlocks[id] \in {BlockKeys(m, p) : m \in Models, p \in Prompts}
  /\ Used \subseteq Keys /\ \A k \in Used : usedBlocks[k] \in Nat \ {0}
  /\ unusedBlocks \subseteq Keys
  /\ older \subseteq unusedBlocks \X unusedBlocks
  /\ blockToTokens \subseteq Keys
  /\ loadedModels \subseteq Models
  /\ disabled \in BOOLEAN
  /\ view \in (SUBSET Keys) \cup {None}

\* The reference count of a block is the number of registered requests that
\* contain it, and the used blocks are exactly those of registered requests;
\* finishRequest therefore never meets a block that is missing (errBlocks).
ReferenceCounts ==
  /\ \A k \in Used : usedBlocks[k] = Cardinality(Holders(k))
  /\ Used = UNION {ToSet(requestToBlocks[id]) : id \in DOMAIN requestToBlocks}

\* A block is used or unused, never both, together they fit into the cache, and
\* tokens are recorded for exactly the cached blocks (no orphaned entries).
CacheBounds ==
  /\ Used \cap unusedBlocks = {}
  /\ Cardinality(Cached) <= MaxBlocks
  /\ blockToTokens = Cached

\* The blocks a worker's request was given stay in use until that request ends,
\* whatever other requests, evictions and LoRA loads happen meanwhile.
ActiveBlocksInUse ==
  \A s \in Subs : work[s] # None => ToSet(work[s]) \subseteq Used

\* If no event was dropped, the events tell a subscriber exactly what is cached:
\* no operation forgets an event or sends one for a change that did not happen.
SubscriberView == view # None => view = Cached

\* The eviction priority: a block of a loaded model leaves the cache (other than
\* by discard) only when no unused block of an unloaded model is left.
EvictionPriority ==
  [][disabled' = disabled /\ (\E k \in Cached \ Cached' : k[1] \in loadedModels)
       => \A k \in unusedBlocks' : k[1] \in loadedModels]_vars
=============================================================================
