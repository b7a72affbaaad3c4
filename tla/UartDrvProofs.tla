--------------------------- MODULE UartDrvProofs ---------------------------
(***************************************************************************)
(* Proofs about UartDrv.tla, for every number of blocks and both orders in *)
(* which the hardware may ask for and give back blocks.                    *)
(***************************************************************************)
EXTENDS UartDrv, FiniteSetTheorems, TLAPS

USE BlockAssumption, ModeAssumption DEF Optional

\* What makes Ownership inductive: a block written beyond block_list is out of
\* the registry's reach for good, and reception is off when it is enabled.
Strays == stray \notin free /\ stray \notin Registered(list)

Phase ==
  /\ rxState = "off" => Held = {}
  /\ rxState = "on" => cur # None
  /\ cur = None => nxt = None
  /\ downs = 0 /\ timer => rxState # "on"
  /\ downs = 0 /\ ~up => rxState = "off" /\ ~timer

OInv == TypeOK /\ Ownership /\ Strays /\ Phase

-----------------------------------------------------------------------------
(* The registry operations *)

\* get_buffer, from a registry in order and whatever free_entry says, hands
\* out a block that was free and stays in order.
LEMMA GetBuffer ==
  ASSUME NEW l \in [Slot -> Optional], NEW n \in 0..255, NEW e \in 0..255,
         NEW f \in SUBSET Block, NEW b \in Optional, stray \in Optional,
         get_buffer(l, n, e, f, b),
         \A i, j \in Slot : l[i] = l[j] /\ l[i] # None => i = j,
         Registered(l) \cap f = {}, stray \notin f, stray \notin Registered(l)
  PROVE  /\ list' \in [Slot -> Optional] /\ stray' \in Optional
         /\ count' \in 0..255 /\ freeEntry' \in 0..255
         /\ free' \subseteq f /\ b \notin free' /\ (b # None => b \in f)
         /\ NoDuplicate' /\ (Registered(list) \cap free)' = {}
         /\ Strays'
<1> DEFINE idx == IF e # OOB_INDX THEN e ELSE n
<1>1. /\ list' = [i \in Slot |-> IF i = idx THEN b ELSE l[i]]
      /\ stray' = IF idx \in Slot THEN stray ELSE b
      /\ count' = (n + 1) % 256 /\ freeEntry' = OOB_INDX /\ free' = f \ {b}
      /\ b \in IF f = {} THEN {None} ELSE f
  BY DEF get_buffer
<1>2. b # None => b \in f /\ b \notin Registered(l)
  BY <1>1
<1>3. \A i \in Slot : l[i] # None => l[i] \in Registered(l)
  BY DEF Registered
<1> HIDE DEF idx
<1>4. NoDuplicate'
  BY <1>1, <1>2, <1>3 DEF NoDuplicate
<1>5. Registered(list)' \subseteq Registered(l) \cup {b}
  BY <1>1 DEF Registered
<1>6. idx \notin Slot => Registered(list)' \subseteq Registered(l)
  BY <1>1 DEF Registered
<1>7. None \notin free' /\ None \notin Registered(list)'
  BY <1>1 DEF Registered
<1>8. Strays'
  BY <1>1, <1>2, <1>5, <1>6, <1>7 DEF Strays
<1>9. count' \in 0..255 /\ freeEntry' \in 0..255
  BY <1>1 DEF OOB_INDX
<1>10. list' \in [Slot -> Optional] /\ stray' \in Optional
  BY <1>1
<1>11. free' \subseteq f /\ b \notin free' /\ (Registered(list) \cap free)' = {}
  BY <1>1, <1>2, <1>5
<1>12. QED
  BY <1>2, <1>4, <1>8, <1>9, <1>10, <1>11

\* release_buffer either frees the block and its slot or changes nothing.
LEMMA ReleaseBuffer ==
  ASSUME OInv, NEW b \in Block, release_buffer(b)
  PROVE  /\ list' \in [Slot -> Optional] /\ stray' = stray
         /\ count' \in 0..255 /\ freeEntry' \in 0..255
         /\ free' \subseteq free \cup {b}
         /\ NoDuplicate' /\ (Registered(list) \cap free)' = {}
         /\ Strays'
<1>1. CASE b \notin Registered(list)
  BY <1>1 DEF release_buffer, registry, OInv, TypeOK, Ownership, NoDuplicate, Strays, Registered
<1>2. CASE b \in Registered(list)
  <2> DEFINE found == CHOOSE i \in Slot : list[i] = b
  <2>1. found \in Slot /\ list[found] = b
    BY <1>2 DEF Registered
  <2>2. /\ list' = [list EXCEPT ![found] = None]
        /\ count' = (count + 255) % 256
        /\ freeEntry' = found /\ free' = free \cup {b} /\ stray' = stray
    BY <1>2 DEF release_buffer
  <2> HIDE DEF found
  <2>3. Registered(list)' = Registered(list) \ {b}
    BY <2>1, <2>2 DEF OInv, TypeOK, Ownership, NoDuplicate, Registered
  <2>4. NoDuplicate'
    BY <2>1, <2>2 DEF OInv, TypeOK, Ownership, NoDuplicate
  <2>5. list' \in [Slot -> Optional] /\ count' \in 0..255
    BY <2>1, <2>2 DEF OInv, TypeOK
  <2>6. freeEntry' \in 0..255
    BY <2>1, <2>2 DEF Slot
  <2>7. Strays' /\ (Registered(list) \cap free)' = {}
    BY <1>2, <2>2, <2>3 DEF OInv, Ownership, Strays
  <2>8. QED
    BY <2>2, <2>4, <2>5, <2>6, <2>7
<1>3. QED
  BY <1>1, <1>2

LEMMA EmptyListType ==
  /\ EmptyList \in [Slot -> Optional]
  /\ Registered(EmptyList) = {}
  /\ \A i, j \in Slot : EmptyList[i] = EmptyList[j] /\ EmptyList[i] # None => i = j
BY DEF EmptyList, Registered

-----------------------------------------------------------------------------
(* One lemma per action *)

LEMMA InitSafe == Init => OInv
<1> SUFFICES ASSUME Init PROVE OInv
  OBVIOUS
<1>1. TypeOK
  <2>1. list \in [Slot -> Optional] /\ freeEntry \in 0..255 /\ count \in 0..255
    BY DEF Init, OOB_INDX
  <2>2. QED
    BY <2>1 DEF Init, TypeOK
<1>2. Registered(list) = {} /\ Held = {}
  BY DEF Init, Registered, Held
<1>3. NoDuplicate /\ Strays /\ Phase
  BY <1>2 DEF Init, NoDuplicate, Strays, Phase
<1>4. Ownership
  BY <1>2, <1>3 DEF Init, Ownership
<1>5. QED
  BY <1>1, <1>3, <1>4 DEF OInv

LEMMA uart_initSafe == ASSUME OInv, uart_init PROVE OInv'
<1>1. PICK b \in Optional :
        get_buffer(EmptyList, count, freeEntry, free, b) /\ rx_enable(b)
  BY DEF uart_init
<1>2. /\ list' \in [Slot -> Optional] /\ stray' \in Optional
      /\ count' \in 0..255 /\ freeEntry' \in 0..255
      /\ free' \subseteq free /\ b \notin free' /\ (b # None => b \in free)
      /\ NoDuplicate' /\ (Registered(list) \cap free)' = {}
      /\ Strays'
  <2>1. /\ count \in 0..255 /\ freeEntry \in 0..255 /\ free \in SUBSET Block
        /\ stray \in Optional /\ stray \notin free
    BY DEF OInv, TypeOK, Strays
  <2>2. Registered(EmptyList) \cap free = {} /\ stray \notin Registered(EmptyList)
    BY EmptyListType
  <2>3. QED
    BY <1>1, <2>1, <2>2, EmptyListType, GetBuffer
<1>3. CASE b # None /\ rxState = "off"
  <2>1. rxState' = "on" /\ cur' = b /\ nxt' = None /\ old' = None /\ assert' = assert
    BY <1>1, <1>3 DEF rx_enable
  <2>2. QED
    BY <1>2, <1>3, <2>1 DEF uart_init, OInv, TypeOK, Ownership, Phase, Held
<1>4. CASE ~(b # None /\ rxState = "off")
  <2>1. UNCHANGED hardware /\ assert' \in {"slab", "enable"}
    BY <1>1, <1>4 DEF rx_enable
  <2>2. QED
    BY <1>2, <1>4, <2>1 DEF uart_init, hardware, OInv, TypeOK, Ownership, Phase, Held
<1>5. QED
  BY <1>3, <1>4

LEMMA uart_uninitSafe == ASSUME OInv, uart_uninit PROVE OInv'
<1>1. /\ list' = EmptyList /\ free' = free \cup Registered(list) /\ stray' = stray
      /\ Registered(list)' = {}
  BY EmptyListType DEF uart_uninit, FreedAll, Registered
<1>2. Registered(list) \subseteq Block
  BY DEF OInv, TypeOK, Registered
<1>3. downs' # 0
  BY DEF uart_uninit, OInv, TypeOK
<1>4. TypeOK'
  <2>1. list' \in [Slot -> Optional] /\ stray' \in Optional /\ free' \subseteq Block
    BY <1>1, <1>2, EmptyListType DEF OInv, TypeOK
  <2>2. count' \in 0..255 /\ freeEntry' \in 0..255 /\ downs' \in Nat
    BY DEF uart_uninit, OInv, TypeOK, MinusOne
  <2>3. QED
    BY <2>1, <2>2 DEF uart_uninit, OInv, TypeOK
<1>5. Strays' /\ NoDuplicate'
  BY <1>1, EmptyListType DEF OInv, Strays, NoDuplicate
<1>6. Phase'
  BY <1>3 DEF uart_uninit, OInv, Phase, Held
<1>7. QED
  BY <1>1, <1>3, <1>4, <1>5, <1>6 DEF OInv, Ownership

LEMMA FillSafe == ASSUME OInv, Fill PROVE OInv'
<1>1. UNCHANGED <<list, free, stray>> /\ Registered(list)' = Registered(list)
  BY DEF Fill, registry, Registered
<1>2. TypeOK' /\ Strays' /\ NoDuplicate'
  BY <1>1 DEF Fill, registry, OInv, TypeOK, Ownership, Strays, NoDuplicate
<1>3. Held' = Held
  BY DEF Fill, Held
<1>4. Phase' /\ Ownership'
  BY <1>1, <1>2, <1>3 DEF Fill, OInv, TypeOK, Ownership, Phase
<1>5. QED
  BY <1>2, <1>4 DEF OInv

LEMMA BufRequestSafe == ASSUME OInv, BufRequest PROVE OInv'
<1>1. PICK b \in Optional :
        /\ get_buffer(list, count, freeEntry, free, b)
        /\ nxt' = b /\ assert' = IF b = None THEN "slab" ELSE assert
  BY DEF BufRequest
<1>2. /\ list' \in [Slot -> Optional] /\ stray' \in Optional
      /\ count' \in 0..255 /\ freeEntry' \in 0..255
      /\ free' \subseteq free /\ b \notin free' /\ (b # None => b \in free)
      /\ NoDuplicate' /\ (Registered(list) \cap free)' = {}
      /\ Strays'
  <2>1. /\ count \in 0..255 /\ freeEntry \in 0..255 /\ free \in SUBSET Block
        /\ list \in [Slot -> Optional] /\ stray \in Optional
    BY DEF OInv, TypeOK
  <2>2. /\ \A i, j \in Slot : list[i] = list[j] /\ list[i] # None => i = j
        /\ Registered(list) \cap free = {}
        /\ stray \notin free /\ stray \notin Registered(list)
    BY DEF OInv, Ownership, NoDuplicate, Strays
  <2>3. QED
    BY <1>1, <2>1, <2>2, GetBuffer
<1>3. TypeOK'
  BY <1>1, <1>2 DEF BufRequest, OInv, TypeOK
<1>4. Phase'
  BY <1>1 DEF BufRequest, OInv, Phase, Held
<1>5. Ownership'
  BY <1>1, <1>2 DEF BufRequest, OInv, TypeOK, Ownership, Held
<1>6. QED
  BY <1>2, <1>3, <1>4, <1>5 DEF OInv

LEMMA BufReleasedSafe == ASSUME OInv, BufReleased PROVE OInv'
<1>1. old \in Block /\ release_buffer(old)
  BY DEF BufReleased, OInv, TypeOK
<1>2. /\ list' \in [Slot -> Optional] /\ stray' = stray
      /\ count' \in 0..255 /\ freeEntry' \in 0..255
      /\ free' \subseteq free \cup {old}
      /\ NoDuplicate' /\ (Registered(list) \cap free)' = {}
      /\ Strays'
  BY <1>1, ReleaseBuffer
<1>3. TypeOK'
  BY <1>1, <1>2 DEF BufReleased, OInv, TypeOK
<1>4. Phase'
  BY DEF BufReleased, OInv, Phase, Held
<1>5. Ownership'
  BY <1>1, <1>2 DEF BufReleased, OInv, TypeOK, Ownership, Held
<1>6. QED
  BY <1>2, <1>3, <1>4, <1>5 DEF OInv

LEMMA BufReturnedSafe == ASSUME OInv, BufReturned PROVE OInv'
<1>1. cur \in Block /\ release_buffer(cur)
  BY DEF BufReturned, OInv, TypeOK
<1>2. /\ list' \in [Slot -> Optional] /\ stray' = stray
      /\ count' \in 0..255 /\ freeEntry' \in 0..255
      /\ free' \subseteq free \cup {cur}
      /\ NoDuplicate' /\ (Registered(list) \cap free)' = {}
      /\ Strays'
  BY <1>1, ReleaseBuffer
<1>3. TypeOK'
  BY <1>1, <1>2 DEF BufReturned, OInv, TypeOK
<1>4. Phase'
  BY DEF BufReturned, OInv, Phase, Held
<1>5. Ownership'
  BY <1>1, <1>2 DEF BufReturned, OInv, TypeOK, Ownership, Held
<1>6. QED
  BY <1>2, <1>3, <1>4, <1>5 DEF OInv

LEMMA RxStoppedSafe == ASSUME OInv, RxStopped PROVE OInv'
<1>1. Registered(list)' = Registered(list) /\ Held' = Held /\ NoDuplicate'
  BY DEF RxStopped, registry, Registered, Held, OInv, Ownership, NoDuplicate
<1>2. TypeOK'
  BY DEF RxStopped, registry, OInv, TypeOK
<1>3. Strays' /\ Phase' /\ Ownership'
  BY <1>1 DEF RxStopped, registry, OInv, TypeOK, Strays, Phase, Ownership
<1>4. QED
  BY <1>2, <1>3 DEF OInv

LEMMA RxDisabledSafe == ASSUME OInv, RxDisabled PROVE OInv'
<1>1. Registered(list)' = Registered(list) /\ Held' = Held /\ NoDuplicate'
  BY DEF RxDisabled, registry, Registered, Held, OInv, Ownership, NoDuplicate
<1>2. TypeOK'
  BY DEF RxDisabled, registry, OInv, TypeOK
<1>3. Held = {}
  BY DEF RxDisabled, OInv, Phase, Held
<1>4. Strays' /\ Phase' /\ Ownership'
  BY <1>1, <1>3 DEF RxDisabled, registry, OInv, TypeOK, Strays, Phase, Ownership
<1>5. QED
  BY <1>2, <1>4 DEF OInv

LEMMA RenableSafe == ASSUME OInv, Renable PROVE OInv'
<1>1. PICK b \in Optional :
        get_buffer(EmptyList, 0, MinusOne, FreedAll, b) /\ rx_enable(b)
  BY DEF Renable
<1>2. /\ list' \in [Slot -> Optional] /\ stray' \in Optional
      /\ count' \in 0..255 /\ freeEntry' \in 0..255
      /\ free' \subseteq FreedAll /\ b \notin free' /\ (b # None => b \in FreedAll)
      /\ NoDuplicate' /\ (Registered(list) \cap free)' = {}
      /\ Strays'
  <2>1. FreedAll \in SUBSET Block /\ stray \in Optional /\ stray \notin FreedAll
    BY DEF OInv, TypeOK, Strays, FreedAll, Registered
  <2>2. 0 \in 0..255 /\ MinusOne \in 0..255
    BY DEF MinusOne
  <2>3. Registered(EmptyList) \cap FreedAll = {} /\ stray \notin Registered(EmptyList)
    BY EmptyListType
  <2>4. QED
    BY <1>1, <2>1, <2>2, <2>3, EmptyListType, GetBuffer
<1>3. free' \subseteq Block
  BY <1>2 DEF OInv, TypeOK, FreedAll, Registered
<1>4. CASE b # None /\ rxState = "off"
  <2>1. rxState' = "on" /\ cur' = b /\ nxt' = None /\ old' = None /\ assert' = assert
    BY <1>1, <1>4 DEF rx_enable
  <2>2. TypeOK'
    BY <1>2, <1>3, <2>1 DEF Renable, OInv, TypeOK
  <2>3. Phase' /\ Ownership'
    BY <1>2, <1>4, <2>1 DEF Renable, OInv, Ownership, Phase, Held
  <2>4. QED
    BY <1>2, <2>2, <2>3 DEF OInv
<1>5. CASE ~(b # None /\ rxState = "off")
  <2>1. UNCHANGED hardware /\ assert' \in {"slab", "enable"}
    BY <1>1, <1>5 DEF rx_enable
  <2>2. downs = 0 => Held = {} /\ cur = None /\ nxt = None
    BY DEF Renable, OInv, TypeOK, Phase, Held
  <2>3. QED
    BY <1>2, <1>3, <2>1, <2>2 DEF Renable, hardware, OInv, TypeOK, Ownership, Phase, Held
<1>6. QED
  BY <1>4, <1>5

-----------------------------------------------------------------------------
LEMMA OInvInductive == OInv /\ [Next]_vars => OInv'
<1> SUFFICES ASSUME OInv, [Next]_vars PROVE OInv'
  OBVIOUS
<1>1. CASE UNCHANGED vars
  BY <1>1 DEF OInv, TypeOK, Ownership, NoDuplicate, Strays, Phase, Held, Registered,
              vars, registry, hardware
<1>2. QED
  BY <1>1, uart_initSafe, uart_uninitSafe, FillSafe, BufRequestSafe, BufReleasedSafe,
     BufReturnedSafe, RxStoppedSafe, RxDisabledSafe, RenableSafe DEF Next

\* Every variable keeps its type; free_entry stays a byte.
THEOREM TypeCorrect == Spec => []TypeOK
<1>1. OInv => TypeOK
  BY DEF OInv
<1>2. QED
  BY <1>1, InitSafe, OInvInductive, PTL DEF Spec

\* The hardware never fills a block the slab could hand out, whatever free_entry
\* says and however often reception is restarted.
THEOREM BlocksOwned == Spec => []Ownership
<1>1. OInv => Ownership
  BY DEF OInv
<1>2. QED
  BY <1>1, InitSafe, OInvInductive, PTL DEF Spec

-----------------------------------------------------------------------------
(* Without errors the two counters find the right slot *)

Taken(b) == IF b = None THEN 0 ELSE 1

\* The occupied slots are the first ones; only the slot in free_entry is empty
\* between a release and the request that follows it.
Compact ==
  /\ freeEntry = OOB_INDX => \A i \in Slot : list[i] # None <=> i < count
  /\ freeEntry # OOB_INDX =>
       /\ freeEntry \in Slot /\ freeEntry <= count
       /\ \A i \in Slot : list[i] # None <=> i <= count /\ i # freeEntry

\* A release never follows a release.
Alternating ==
  /\ old # None /\ nxt # None => RequestFirst /\ freeEntry = OOB_INDX
  /\ ~RequestFirst /\ (old # None \/ nxt # None) => freeEntry = OOB_INDX

Undisturbed ==
  /\ ~timer /\ rxState # "stopping" /\ stray = None /\ assert = "none"
  /\ rxState = "off" => freeEntry = OOB_INDX
  /\ Registered(list) = Held
  /\ free = Block \ Held
  /\ count = Taken(cur) + Taken(nxt) + Taken(old)
  /\ Compact
  /\ Alternating

EInv == OInv /\ (stops = 0 /\ downs = 0 => Undisturbed)

\* The slab holds more blocks than the hardware does when it asks for one.
LEMMA SomeFree ==
  ASSUME NEW x, NEW y
  PROVE  Block \ {x, y} # {}
<1> SUFFICES ASSUME Block \subseteq {x, y} PROVE FALSE
  OBVIOUS
<1>1. IsFiniteSet({x, y}) /\ Cardinality({x, y}) <= 2
  <2>1. IsFiniteSet({x}) /\ Cardinality({x}) = 1
    BY FS_Singleton
  <2>2. {x, y} = {x} \cup {y}
    OBVIOUS
  <2>3. IsFiniteSet({x} \cup {y}) /\
        (Cardinality({x} \cup {y}) = Cardinality({x}) \/
         Cardinality({x} \cup {y}) = Cardinality({x}) + 1)
    BY <2>1, FS_AddElement
  <2>4. QED
    BY <2>1, <2>2, <2>3
<1>2. Cardinality(Block) <= Cardinality({x, y})
  BY <1>1, FS_Subset
<1>3. QED
  BY <1>1, <1>2, FS_CardinalityType

LEMMA uart_initExact ==
  ASSUME EInv, stops = 0, downs = 0, uart_init PROVE Undisturbed'
<1>1. rxState = "off" /\ ~timer /\ Held = {} /\ Undisturbed
  BY DEF EInv, OInv, Phase, uart_init
<1>2. cur = None /\ nxt = None /\ old = None /\ count = 0 /\ freeEntry = OOB_INDX
  BY <1>1 DEF Undisturbed, Held, Taken
<1>3. PICK b \in Optional :
        get_buffer(EmptyList, count, freeEntry, free, b) /\ rx_enable(b)
  BY DEF uart_init
<1>4. b \in Block
  BY <1>1, <1>3, SomeFree DEF Undisturbed, get_buffer
<1>5. /\ list' = [i \in Slot |-> IF i = 0 THEN b ELSE None]
      /\ stray' = None /\ count' = 1 /\ freeEntry' = OOB_INDX /\ free' = Block \ {b}
  BY <1>1, <1>2, <1>3 DEF get_buffer, Undisturbed, Slot, EmptyList
<1>6. rxState' = "on" /\ cur' = b /\ nxt' = None /\ old' = None /\ assert' = assert
  BY <1>1, <1>3, <1>4 DEF rx_enable
<1>7. Held' = {b} /\ Registered(list)' = {b}
  <2>1. Held' = {b}
    BY <1>4, <1>6 DEF Held
  <2>2. 0 \in Slot /\ None # b
    BY <1>4 DEF Slot
  <2>3. Registered(list)' = {b}
    BY <1>5, <2>2 DEF Registered
  <2>4. QED
    BY <2>1, <2>3
<1>8. Compact' /\ Alternating'
  BY <1>4, <1>5, <1>6 DEF Compact, Alternating, Slot
<1>9. QED
  BY <1>1, <1>4, <1>5, <1>6, <1>7, <1>8 DEF Undisturbed, Taken, uart_init

LEMMA FillExact ==
  ASSUME EInv, stops = 0, downs = 0, Fill PROVE Undisturbed'
<1>1. Undisturbed /\ Held' = Held /\ Registered(list)' = Registered(list)
  BY DEF EInv, Fill, Held, registry, Registered
<1>2. cur # None
  BY DEF EInv, OInv, Phase, Fill
<1>3. Compact' /\ Alternating'
  BY <1>1, <1>2 DEF Undisturbed, Compact, Alternating, Fill, registry
<1>4. QED
  BY <1>1, <1>2, <1>3 DEF Undisturbed, Taken, Fill, registry

LEMMA BufRequestExact ==
  ASSUME EInv, stops = 0, downs = 0, BufRequest PROVE Undisturbed'
<1>1. Undisturbed /\ TypeOK /\ NoDuplicate
  BY DEF EInv, OInv, Ownership
<1>2. PICK b \in Optional :
        /\ get_buffer(list, count, freeEntry, free, b)
        /\ nxt' = b /\ assert' = IF b = None THEN "slab" ELSE assert
  BY DEF BufRequest
<1>3. free # {}
  <2>1. Held \subseteq {cur, old}
    BY DEF Held, BufRequest
  <2>2. QED
    BY <1>1, <2>1, SomeFree DEF Undisturbed
<1>4. b \in free /\ b \in Block /\ b \notin Held
  BY <1>1, <1>2, <1>3 DEF get_buffer, Undisturbed
<1> DEFINE idx == IF freeEntry # OOB_INDX THEN freeEntry ELSE count
<1>5. count \in 0..2
  BY <1>1 DEF Undisturbed, Taken, BufRequest
<1>6. idx \in Slot /\ idx <= count /\ list[idx] = None
  BY <1>1, <1>5 DEF Undisturbed, Compact, Slot
<1>7. /\ list' = [list EXCEPT ![idx] = b]
      /\ stray' = stray /\ count' = count + 1
      /\ freeEntry' = OOB_INDX /\ free' = free \ {b}
  <2>1. /\ list' = [i \in Slot |-> IF i = idx THEN b ELSE list[i]]
        /\ stray' = IF idx \in Slot THEN stray ELSE b
        /\ count' = (count + 1) % 256 /\ freeEntry' = OOB_INDX /\ free' = free \ {b}
    BY <1>2 DEF get_buffer
  <2>2. (count + 1) % 256 = count + 1
    BY <1>5
  <2> HIDE DEF idx
  <2>3. [i \in Slot |-> IF i = idx THEN b ELSE list[i]] = [list EXCEPT ![idx] = b]
    BY <1>1, <1>6 DEF TypeOK
  <2>4. QED
    BY <1>6, <2>1, <2>2, <2>3
<1>8. Compact'
  <2>1. list' \in [Slot -> Optional] /\ \A i \in Slot : list'[i] # None <=> list[i] # None \/ i = idx
    BY <1>1, <1>4, <1>6, <1>7 DEF TypeOK
  <2>2. CASE freeEntry = OOB_INDX
    BY <1>1, <1>5, <1>7, <2>1, <2>2 DEF Undisturbed, Compact, Slot
  <2>3. CASE freeEntry # OOB_INDX
    BY <1>1, <1>5, <1>7, <2>1, <2>3 DEF Undisturbed, Compact, Slot
  <2>4. QED
    BY <2>2, <2>3
<1> HIDE DEF idx
<1>9. Held' = Held \cup {b}
  BY <1>2, <1>4 DEF Held, BufRequest
<1>10. Registered(list)' = Registered(list) \cup {b}
  BY <1>1, <1>4, <1>6, <1>7 DEF Registered, TypeOK
<1>11. Alternating'
  BY <1>1, <1>2, <1>7 DEF Undisturbed, Alternating, BufRequest
<1>12. count' = (Taken(cur) + Taken(nxt) + Taken(old))'
  BY <1>1, <1>2, <1>4, <1>7 DEF Undisturbed, Taken, BufRequest
<1>13. QED
  BY <1>1, <1>2, <1>4, <1>7, <1>8, <1>9, <1>10, <1>11, <1>12
     DEF Undisturbed, BufRequest

LEMMA BufReleasedExact ==
  ASSUME EInv, stops = 0, downs = 0, BufReleased PROVE Undisturbed'
<1>1. Undisturbed /\ TypeOK /\ NoDuplicate
  BY DEF EInv, OInv, Ownership
<1>2. /\ old \in Block /\ release_buffer(old) /\ old \in Registered(list)
      /\ freeEntry = OOB_INDX /\ cur # None /\ cur # old /\ nxt # old
      /\ rxState = "on"
  <2>1. rxState = "on" /\ old \in Held
    <3>1. old \in Held
      BY DEF BufReleased, Held
    <3>2. rxState # "off"
      BY <3>1 DEF EInv, OInv, Phase
    <3>3. QED
      BY <1>1, <3>1, <3>2 DEF Undisturbed, TypeOK
  <2>2. cur # None /\ cur # old /\ nxt # old
    BY <2>1 DEF EInv, OInv, Phase, Ownership, BufReleased, Held
  <2>3. freeEntry = OOB_INDX
    BY <1>1, <2>1 DEF BufReleased, Undisturbed, Alternating
  <2>4. QED
    BY <1>1, <2>1, <2>2, <2>3 DEF BufReleased, Undisturbed, TypeOK
<1> DEFINE found == CHOOSE i \in Slot : list[i] = old
<1>3. found \in Slot /\ list[found] = old
  BY <1>2 DEF Registered
<1>4. /\ list' = [list EXCEPT ![found] = None]
      /\ count' = (count + 255) % 256
      /\ freeEntry' = found /\ free' = free \cup {old} /\ stray' = stray
  BY <1>2 DEF release_buffer
<1> HIDE DEF found
<1>5. count \in 2..3 /\ count' = count - 1
  <2>1. count \in 2..3
    BY <1>1, <1>2 DEF Undisturbed, Taken, BufReleased
  <2>2. QED
    BY <1>4, <2>1
<1>6. found < count
  BY <1>1, <1>2, <1>3 DEF Undisturbed, Compact
<1>7. Compact'
  <2>1. freeEntry' # OOB_INDX /\ freeEntry' \in Slot /\ freeEntry' <= count'
    BY <1>3, <1>4, <1>5, <1>6 DEF Slot, OOB_INDX
  <2>2. \A i \in Slot : list'[i] # None <=> i <= count' /\ i # freeEntry'
    BY <1>1, <1>2, <1>3, <1>4, <1>5, <1>6 DEF Undisturbed, Compact, TypeOK, Slot
  <2>3. QED
    BY <2>1, <2>2 DEF Compact
<1>8. Held' = Held \ {old}
  BY <1>2 DEF Held, BufReleased
<1>9. Registered(list)' = Registered(list) \ {old}
  BY <1>1, <1>2, <1>3, <1>4 DEF Registered, TypeOK, NoDuplicate
<1>10. Alternating'
  BY <1>1, <1>2 DEF Undisturbed, Alternating, BufReleased
<1>11. count' = (Taken(cur) + Taken(nxt) + Taken(old))'
  BY <1>1, <1>2, <1>5 DEF Undisturbed, Taken, BufReleased
<1>12. old \in Held
  BY <1>2 DEF Held
<1>13. free' = (Block \ Held)'
  BY <1>1, <1>2, <1>4, <1>8, <1>12 DEF Undisturbed
<1>14. QED
  <2>1. Registered(list)' = Held'
    BY <1>1, <1>8, <1>9 DEF Undisturbed
  <2>2. QED
    BY <1>1, <1>2, <1>4, <1>7, <1>10, <1>11, <1>13, <2>1 DEF Undisturbed, BufReleased

LEMMA ExactInitially == Init => EInv
<1> SUFFICES ASSUME Init PROVE EInv
  OBVIOUS
<1>1. Registered(list) = {} /\ Held = {}
  BY DEF Init, Registered, Held
<1>2. Compact /\ Alternating
  BY DEF Init, Compact, Alternating, Slot
<1>3. QED
  BY <1>1, <1>2, InitSafe DEF Init, EInv, Undisturbed, Taken

LEMMA ExactInductive == EInv /\ [Next]_vars => EInv'
<1> SUFFICES ASSUME EInv, [Next]_vars, stops' = 0, downs' = 0 PROVE Undisturbed'
  BY OInvInductive DEF EInv
<1>1. stops = 0 /\ downs = 0
  BY DEF EInv, OInv, TypeOK, Next, uart_init, uart_uninit, Fill, BufRequest, BufReleased,
         BufReturned, RxStopped, RxDisabled, Renable, vars
<1>2. Undisturbed
  BY <1>1 DEF EInv
<1>3. ~uart_uninit /\ ~RxStopped
  BY <1>1 DEF uart_uninit, RxStopped
<1>4. ~BufReturned /\ ~RxDisabled /\ ~Renable
  BY <1>2 DEF Undisturbed, BufReturned, RxDisabled, Renable
<1>5. CASE UNCHANGED vars
  BY <1>2, <1>5 DEF vars, registry, hardware, Undisturbed, Registered, Held, Taken, Compact,
                    Alternating
<1>6. QED
  BY <1>1, <1>3, <1>4, <1>5, uart_initExact, FillExact, BufRequestExact,
     BufReleasedExact DEF Next

\* At most three different blocks are held, and block_count counts them.
LEMMA HeldCounted ==
  ASSUME OInv, stops = 0, downs = 0, Undisturbed
  PROVE  count = Cardinality(Held)
<1>1. /\ cur # None => cur # nxt /\ cur # old
      /\ nxt # None => nxt # old
  BY DEF OInv, Ownership
<1> DEFINE A == {cur} \ {None}
           B == A \cup ({nxt} \ {None})
<1>2. IsFiniteSet(A) /\ Cardinality(A) = Taken(cur)
  <2>1. CASE cur = None
    BY <2>1, FS_EmptySet DEF Taken
  <2>2. CASE cur # None
    <3>1. A = {cur}
      BY <2>2
    <3>2. IsFiniteSet({cur}) /\ Cardinality({cur}) = 1
      BY FS_Singleton
    <3>3. QED
      BY <2>2, <3>1, <3>2 DEF Taken
  <2>3. QED
    BY <2>1, <2>2
<1>3. IsFiniteSet(B) /\ Cardinality(B) = Taken(cur) + Taken(nxt)
  <2>1. CASE nxt = None
    <3>1. B = A
      BY <2>1
    <3>2. QED
      BY <1>2, <2>1, <3>1 DEF Taken
  <2>2. CASE nxt # None
    <3>1. B = A \cup {nxt} /\ nxt \notin A
      BY <1>1, <2>2
    <3>2. IsFiniteSet(A \cup {nxt}) /\ Cardinality(A \cup {nxt}) = Cardinality(A) + 1
      BY <1>2, <3>1, FS_AddElement
    <3>3. QED
      BY <1>2, <2>2, <3>1, <3>2 DEF Taken
  <2>3. QED
    BY <2>1, <2>2
<1>4. Cardinality(Held) = Taken(cur) + Taken(nxt) + Taken(old)
  <2>1. CASE old = None
    <3>1. Held = B
      BY <2>1 DEF Held
    <3>2. QED
      BY <1>3, <2>1, <3>1 DEF Taken
  <2>2. CASE old # None
    <3>1. Held = B \cup {old} /\ old \notin B
      BY <1>1, <2>2 DEF Held
    <3>2. Cardinality(B \cup {old}) = Cardinality(B) + 1
      BY <1>3, <3>1, FS_AddElement
    <3>3. QED
      BY <1>3, <2>2, <3>1, <3>2 DEF Taken
  <2>3. QED
    BY <2>1, <2>2
<1>5. QED
  BY <1>4 DEF Undisturbed

\* As long as no error occurs block_list and block_count are exact, in both
\* orders of requests and releases.
THEOREM ListExact == Spec => []RegistryExact
<1>1. EInv => RegistryExact
  BY HeldCounted DEF EInv, Undisturbed, RegistryExact
<1>2. QED
  BY <1>1, ExactInitially, ExactInductive, PTL DEF Spec

\* As long as no error occurs every request for a block is met.
THEOREM RequestsMet == Spec => []RequestMet
<1>1. EInv => RequestMet
  BY DEF EInv, Undisturbed, RequestMet
<1>2. QED
  BY <1>1, ExactInitially, ExactInductive, PTL DEF Spec
-----------------------------------------------------------------------------
(* After an error the counters find the right slot again, and one block is lost *)

\* The block written beyond block_list is still in block_count.
Base == Taken(stray)

\* Compact, if the first slot is not used any more.
Shifted ==
  /\ Base <= count /\ count <= NumBuf
  /\ freeEntry = OOB_INDX => \A i \in Slot : list[i] # None <=> Base <= i /\ i < count
  /\ freeEntry # OOB_INDX =>
       /\ freeEntry \in Slot /\ Base <= freeEntry /\ freeEntry <= count /\ count < NumBuf
       /\ \A i \in Slot : list[i] # None <=> Base <= i /\ i <= count /\ i # freeEntry

Fresh ==
  list = EmptyList /\ stray = None /\ count = 0 /\ freeEntry = OOB_INDX /\ free = Block

Lost == Block \ (free \cup Registered(list))

\* A restart that is still to come will lose a block.
Ticking == IF timer THEN 1 ELSE 0

Counted ==
  /\ ~up => Fresh
  /\ rxState = "on" /\ assert = "none" => Shifted /\ Alternating
  /\ Cardinality(Lost) + Ticking <= stops

LInv == OInv /\ (downs = 0 => Counted)

\* If all slots are in use no block is free.
LEMMA AllUsed ==
  ASSUME OInv, \A i \in Slot : Base <= i => list[i] # None
  PROVE  free = {}
<1> SUFFICES ASSUME NEW b \in free PROVE FALSE
  OBVIOUS
<1> DEFINE g == [i \in Slot |-> IF i < Base THEN stray ELSE list[i]]
           T == Block \ {b}
<1>1. Base \in {0, 1} /\ (Base = 1 => stray # None)
  BY DEF Base, Taken
<1>2. \A i \in Slot : i \in Nat /\ (~(i < Base) => Base <= i)
  BY <1>1 DEF Slot
<1>3. \A i \in Slot : list[i] # None => list[i] \in Registered(list)
  BY DEF Registered
<1>4. Registered(list) \subseteq Block /\ b \in Block /\ b \notin Registered(list)
      /\ stray # b /\ stray \notin Registered(list) /\ stray \in Optional
  BY DEF OInv, TypeOK, Ownership, Strays, Registered
<1>5. g \in [Slot -> T]
  <2>1. ASSUME NEW i \in Slot
        PROVE  (IF i < Base THEN stray ELSE list[i]) \in T
    <3>1. CASE i < Base
      <4>1. Base = 1
        BY <1>1, <1>2, <3>1
      <4>2. QED
        BY <1>1, <1>4, <3>1, <4>1
    <3>2. CASE ~(i < Base)
      BY <1>2, <1>3, <1>4, <3>2
    <3>3. QED
      BY <3>1, <3>2
  <2>2. QED
    BY <2>1
<1>6. IsFiniteSet(Slot) /\ Cardinality(Slot) = NumBuf
  BY FS_Interval DEF Slot
<1>7. IsFiniteSet(T) /\ Cardinality(T) = NumBuf - 1
  BY <1>4, FS_RemoveElement
<1>8. \E x, y \in Slot : x # y /\ g[x] = g[y]
  <2> HIDE DEF T, g
  <2>1. NumBuf - 1 < NumBuf
    BY BlockAssumption
  <2>2. QED
    BY <1>5, <1>6, <1>7, <2>1, FS_PigeonHole
<1>9. PICK x \in Slot, y \in Slot : x # y /\ g[x] = g[y]
  BY <1>8
<1>10. CASE x < Base /\ y < Base
  BY <1>1, <1>2, <1>9, <1>10
<1>11. CASE ~(x < Base) /\ ~(y < Base)
  BY <1>2, <1>9, <1>11 DEF OInv, Ownership, NoDuplicate
<1>12. CASE x < Base <=> ~(y < Base)
  BY <1>2, <1>3, <1>4, <1>9, <1>12
<1>13. QED
  BY <1>10, <1>11, <1>12

\* A part of the blocks is finite.
LEMMA LostFinite ==
  ASSUME NEW S \in SUBSET Block
  PROVE  IsFiniteSet(S) /\ Cardinality(S) \in Nat
BY FS_Subset, FS_CardinalityType

\* No step but a restart loses a block.
LEMMA NothingLost ==
  ASSUME OInv, OInv', Counted, Lost' \subseteq Lost, stops' = stops, ~timer' \/ timer
  PROVE  (Cardinality(Lost) + Ticking)' <= stops'
<1>1. IsFiniteSet(Lost) /\ Cardinality(Lost) \in Nat /\ Cardinality(Lost') \in Nat
  BY LostFinite DEF Lost
<1>2. Cardinality(Lost') <= Cardinality(Lost)
  BY <1>1, FS_Subset
<1>3. Ticking \in 0..1 /\ Ticking' \in 0..1 /\ Ticking' <= Ticking /\ stops \in Nat
  BY DEF Ticking, OInv, TypeOK
<1>4. QED
  BY <1>1, <1>2, <1>3 DEF Counted

\* The slot in which get_buffer puts a block is vacant and in block_list.
LEMMA RightSlot ==
  ASSUME OInv, Shifted, free # {}
  PROVE  LET idx == IF freeEntry # OOB_INDX THEN freeEntry ELSE count
         IN  idx \in Slot /\ Base <= idx /\ list[idx] = None /\ idx <= count /\ count < NumBuf
<1>1. Base \in {0, 1} /\ count \in Nat
  BY DEF Base, Taken, OInv, TypeOK
<1>2. CASE freeEntry = OOB_INDX
  <2>1. count # NumBuf
    <3>1. SUFFICES ASSUME count = NumBuf PROVE FALSE
      OBVIOUS
    <3>2. \A i \in Slot : Base <= i => list[i] # None
      BY <1>2, <3>1 DEF Shifted, Slot
    <3>3. QED
      BY <3>2, AllUsed
  <2>2. QED
    BY <1>1, <1>2, <2>1 DEF Shifted, Slot
<1>3. CASE freeEntry # OOB_INDX
  <2>1. freeEntry \in Slot /\ Base <= freeEntry /\ freeEntry <= count /\ list[freeEntry] = None
    BY <1>3 DEF Shifted
  <2>2. count < NumBuf
    BY <1>3 DEF Shifted
  <2>3. QED
    BY <1>3, <2>1, <2>2
<1>4. QED
  BY <1>2, <1>3

LEMMA uart_initCounted ==
  ASSUME LInv, OInv', downs = 0, uart_init PROVE Counted'
<1>1. Fresh /\ OInv /\ Counted /\ rxState = "off" /\ ~timer
  BY DEF LInv, Counted, uart_init, OInv, Phase
<1>2. PICK b \in Optional :
        get_buffer(EmptyList, count, freeEntry, free, b) /\ rx_enable(b)
  BY DEF uart_init
<1>3. b \in Block
  <2>1. Block # {}
    BY FS_EmptySet
  <2>2. QED
    BY <1>1, <1>2, <2>1 DEF Fresh, get_buffer
<1>4. /\ list' = [i \in Slot |-> IF i = 0 THEN b ELSE None]
      /\ stray' = None /\ count' = 1 /\ freeEntry' = OOB_INDX /\ free' = Block \ {b}
  BY <1>1, <1>2 DEF get_buffer, Fresh, Slot, EmptyList
<1>5. cur' = b /\ nxt' = None /\ old' = None /\ up' /\ ~timer' /\ stops' = stops
  BY <1>1, <1>2, <1>3 DEF rx_enable, uart_init
<1>6. Lost' = {}
  <2>1. 0 \in Slot
    BY DEF Slot
  <2>2. b \in Registered(list)'
    BY <1>3, <1>4, <2>1 DEF Registered
  <2>3. QED
    BY <1>4, <2>2 DEF Lost
<1>7. (Cardinality(Lost) + Ticking)' <= stops'
  BY <1>1, <1>5, <1>6, NothingLost
<1>8. Shifted' /\ Alternating'
  BY <1>3, <1>4, <1>5 DEF Shifted, Alternating, Slot, Base, Taken
<1>9. QED
  BY <1>5, <1>7, <1>8 DEF Counted

LEMMA FillCounted ==
  ASSUME LInv, OInv', downs = 0, Fill PROVE Counted'
<1>1. OInv /\ Counted /\ cur # None /\ UNCHANGED <<registry, stops, timer, up, rxState, assert>>
  BY DEF LInv, OInv, Phase, Fill
<1>2. Lost' = Lost
  BY <1>1 DEF registry, Lost, Registered
<1>3. (Cardinality(Lost) + Ticking)' <= stops'
  BY <1>1, <1>2, NothingLost
<1>4. rxState = "on" /\ assert = "none"
  BY DEF Fill
<1>5. Shifted'
  BY <1>1, <1>4 DEF Counted, Shifted, registry, Base, Taken
<1>6. Alternating'
  BY <1>1, <1>4 DEF Counted, Alternating, Fill, registry
<1>7. QED
  BY <1>1, <1>3, <1>5, <1>6 DEF Counted, Fresh, registry

LEMMA BufRequestCounted ==
  ASSUME LInv, OInv', downs = 0, BufRequest PROVE Counted'
<1>1. /\ OInv /\ Counted /\ Shifted /\ Alternating /\ up
      /\ UNCHANGED <<stops, timer, up, rxState, cur, old>> /\ nxt = None
  BY DEF LInv, OInv, Phase, BufRequest, Counted
<1>2. PICK b \in Optional :
        /\ get_buffer(list, count, freeEntry, free, b)
        /\ nxt' = b /\ assert' = IF b = None THEN "slab" ELSE assert
  BY DEF BufRequest
<1> DEFINE idx == IF freeEntry # OOB_INDX THEN freeEntry ELSE count
<1>3. /\ list' = [i \in Slot |-> IF i = idx THEN b ELSE list[i]]
      /\ stray' = IF idx \in Slot THEN stray ELSE b
      /\ count' = (count + 1) % 256 /\ freeEntry' = OOB_INDX /\ free' = free \ {b}
  BY <1>2 DEF get_buffer
<1>4. list \in [Slot -> Optional] /\ count \in Nat /\ None \notin free
  BY <1>1 DEF OInv, TypeOK
<1>5. CASE free = {}
  <2>1. b = None /\ assert' # "none"
    BY <1>2, <1>5 DEF get_buffer
  <2>2. idx \in Slot => list[idx] = None
    BY <1>1, <1>4 DEF Shifted
  <2> HIDE DEF idx
  <2>3. list' = list /\ free' = free
    BY <1>3, <1>4, <1>5, <2>1, <2>2
  <2>4. Lost' = Lost
    BY <2>3 DEF Lost, Registered
  <2>5. (Cardinality(Lost) + Ticking)' <= stops'
    BY <1>1, <2>4, NothingLost
  <2>6. QED
    BY <1>1, <2>1, <2>5 DEF Counted
<1>6. CASE free # {}
  <2>1. b \in free /\ b # None
    BY <1>2, <1>4, <1>6 DEF get_buffer
  <2>2. idx \in Slot /\ Base <= idx /\ list[idx] = None /\ idx <= count /\ count < NumBuf
    BY <1>1, <1>6, RightSlot
  <2>3. count' = count + 1 /\ stray' = stray
    <3>1. count + 1 \in 0..255
      BY <1>4, <2>2
    <3> HIDE DEF idx
    <3>2. QED
      BY <1>3, <2>2, <3>1
  <2>4. Shifted'
    <3>1. \A i \in Slot : list'[i] # None <=> list[i] # None \/ i = idx
      BY <1>3, <2>1, <2>2
    <3>2. \A i \in Slot : list'[i] # None <=> Base <= i /\ i < count'
      <4>1. CASE freeEntry = OOB_INDX
        BY <1>1, <1>4, <2>2, <2>3, <3>1, <4>1 DEF Shifted, Slot
      <4>2. CASE freeEntry # OOB_INDX
        BY <1>1, <1>4, <2>2, <2>3, <3>1, <4>2 DEF Shifted, Slot
      <4>3. QED
        BY <4>1, <4>2
    <3>3. Base' = Base /\ Base \in {0, 1}
      BY <2>3 DEF Base, Taken
    <3>4. Base' <= count' /\ count' <= NumBuf
      BY <1>1, <1>4, <2>2, <2>3, <3>3 DEF Shifted
    <3>5. QED
      BY <1>3, <3>2, <3>3, <3>4 DEF Shifted
  <2>5. Alternating'
    BY <1>1, <1>3 DEF Alternating, BufRequest
  <2> HIDE DEF idx
  <2>6. Registered(list) \cup {b} \subseteq Registered(list)'
    <3>1. \A i \in Slot : list[i] # None => list'[i] = list[i]
      BY <1>3, <2>2
    <3>2. list'[idx] = b
      BY <1>3, <2>2
    <3>3. QED
      BY <2>1, <2>2, <3>1, <3>2 DEF Registered
  <2>7. Lost' \subseteq Lost
    BY <1>3, <2>1, <2>6 DEF Lost
  <2>8. (Cardinality(Lost) + Ticking)' <= stops'
    BY <1>1, <2>7, NothingLost
  <2>9. QED
    BY <1>1, <2>4, <2>5, <2>8 DEF Counted
<1>7. QED
  BY <1>5, <1>6

\* A block that is given back is not lost, whether or not it is in a slot.
LEMMA ReleaseLosesNothing ==
  ASSUME OInv, NEW b \in Block, release_buffer(b)
  PROVE  Lost' \subseteq Lost
<1>1. CASE b \notin Registered(list)
  BY <1>1 DEF release_buffer, registry, Lost, Registered
<1>2. CASE b \in Registered(list)
  <2> DEFINE found == CHOOSE i \in Slot : list[i] = b
  <2>1. found \in Slot /\ list[found] = b
    BY <1>2 DEF Registered
  <2>2. list' = [list EXCEPT ![found] = None] /\ free' = free \cup {b}
    BY <1>2 DEF release_buffer
  <2> HIDE DEF found
  <2>3. Registered(list) \ {b} \subseteq Registered(list)'
    BY <2>1, <2>2 DEF OInv, TypeOK, Registered
  <2>4. QED
    BY <2>2, <2>3 DEF Lost
<1>3. QED
  BY <1>1, <1>2

LEMMA BufReleasedCounted ==
  ASSUME LInv, OInv', downs = 0, BufReleased PROVE Counted'
<1>1. /\ OInv /\ Counted /\ up /\ old \in Block /\ release_buffer(old)
      /\ UNCHANGED <<stops, timer, up, rxState, cur, nxt, assert>> /\ old' = None
  BY DEF LInv, OInv, TypeOK, Phase, BufReleased, Counted, Held
<1>2. (Cardinality(Lost) + Ticking)' <= stops'
  BY <1>1, ReleaseLosesNothing, NothingLost
<1>3. ASSUME rxState = "on"
      PROVE  Shifted' /\ Alternating'
  <2>1. Shifted /\ Alternating /\ freeEntry = OOB_INDX
    <3>1. Shifted /\ Alternating
      BY <1>1, <1>3 DEF Counted, BufReleased
    <3>2. freeEntry = OOB_INDX
      BY <1>1, <1>3, <3>1 DEF Alternating, BufReleased
    <3>3. QED
      BY <3>1, <3>2
  <2>2. CASE old \notin Registered(list)
    <3>1. UNCHANGED registry
      BY <1>1, <2>2 DEF release_buffer
    <3>2. Shifted'
      BY <2>1, <3>1 DEF registry, Shifted, Base, Taken
    <3>3. Alternating'
      BY <1>1, <2>1, <3>1 DEF registry, Alternating
    <3>4. QED
      BY <3>2, <3>3
  <2>3. CASE old \in Registered(list)
    <3> DEFINE found == CHOOSE i \in Slot : list[i] = old
    <3>1. found \in Slot /\ list[found] = old /\ old # None
      BY <1>1, <2>3 DEF Registered
    <3>2. /\ list' = [list EXCEPT ![found] = None]
          /\ count' = (count + 255) % 256
          /\ freeEntry' = found /\ stray' = stray
      BY <1>1, <2>3 DEF release_buffer
    <3> HIDE DEF found
    <3>3. Base <= found /\ found < count /\ count <= NumBuf /\ count \in Nat /\ found \in Nat
      BY <1>1, <2>1, <3>1 DEF Shifted, OInv, TypeOK, Slot
    <3>4. count' = count - 1
      BY <3>2, <3>3
    <3>5. \A i \in Slot : list'[i] # None <=> list[i] # None /\ i # found
      BY <1>1, <3>1, <3>2 DEF OInv, TypeOK
    <3>6. Base' = Base /\ Base \in {0, 1} /\ freeEntry' # OOB_INDX
      BY <3>1, <3>2 DEF Base, Taken, OOB_INDX, Slot
    <3>7. \A i \in Slot : list'[i] # None <=> Base' <= i /\ i <= count' /\ i # freeEntry'
      BY <2>1, <3>2, <3>3, <3>4, <3>5, <3>6 DEF Shifted, Slot
    <3>8. Shifted'
      BY <3>1, <3>2, <3>3, <3>4, <3>6, <3>7 DEF Shifted
    <3>9. Alternating'
      BY <1>1, <2>1, <3>1 DEF Alternating
    <3>10. QED
      BY <3>8, <3>9
  <2>4. QED
    BY <2>2, <2>3
<1>4. QED
  BY <1>1, <1>2, <1>3 DEF Counted

LEMMA OthersCounted ==
  ASSUME LInv, OInv', downs = 0, BufReturned \/ RxStopped \/ RxDisabled PROVE Counted'
<1>1. OInv /\ Counted /\ up' /\ (rxState' = "stopping" \/ rxState' = "off")
  BY DEF LInv, OInv, Phase, BufReturned, RxStopped, RxDisabled, Counted
<1>2. (Cardinality(Lost) + Ticking)' <= stops'
  <2>1. CASE BufReturned
    <3>1. cur \in Block /\ release_buffer(cur) /\ UNCHANGED <<stops, timer>>
      BY <1>1, <2>1 DEF BufReturned, OInv, TypeOK
    <3>2. QED
      BY <1>1, <3>1, ReleaseLosesNothing, NothingLost
  <2>2. CASE RxDisabled
    <3>1. Lost' = Lost /\ UNCHANGED <<stops, timer>>
      BY <2>2 DEF RxDisabled, registry, Lost, Registered
    <3>2. QED
      BY <1>1, <3>1, NothingLost
  <2>3. CASE RxStopped
    <3>1. Lost' = Lost /\ stops' = stops + 1 /\ ~timer /\ timer'
      BY <1>1, <2>3 DEF RxStopped, registry, Lost, Registered, OInv, Phase
    <3>2. Cardinality(Lost) \in Nat /\ stops \in Nat
      BY <1>1, LostFinite DEF Lost, OInv, TypeOK
    <3>3. QED
      BY <1>1, <3>1, <3>2 DEF Counted, Ticking
  <2>4. QED
    BY <2>1, <2>2, <2>3
<1>3. QED
  BY <1>1, <1>2 DEF Counted

LEMMA RenableCounted ==
  ASSUME LInv, OInv', downs = 0, Renable PROVE Counted'
<1>1. OInv /\ Counted /\ up /\ up' /\ rxState = "off" /\ timer /\ ~timer' /\ stops' = stops
  BY DEF LInv, OInv, TypeOK, Phase, Renable, Counted
<1>2. PICK b \in Optional :
       get_buffer(EmptyList, 0, MinusOne, FreedAll, b) /\ rx_enable(b)
  BY DEF Renable
<1>3. /\ list' = EmptyList /\ stray' = b /\ count' = 1 /\ freeEntry' = OOB_INDX
      /\ free' = FreedAll \ {b} /\ (b = None => FreedAll = {} \/ None \in FreedAll)
  <2>1. MinusOne # OOB_INDX /\ MinusOne \notin Slot
    BY DEF MinusOne, OOB_INDX, Slot
  <2>2. QED
    BY <1>2, <2>1 DEF get_buffer, EmptyList
<1>4. Lost' \subseteq Lost \cup {b}
  BY <1>3 DEF Lost, FreedAll
<1>5. (Cardinality(Lost) + Ticking)' <= stops'
  <2>1. IsFiniteSet(Lost) /\ Cardinality(Lost) \in Nat /\ Cardinality(Lost') \in Nat /\ stops \in Nat
    BY <1>1, LostFinite DEF Lost, OInv, TypeOK
  <2>2. IsFiniteSet(Lost \cup {b}) /\ Cardinality(Lost \cup {b}) <= Cardinality(Lost) + 1
        /\ Cardinality(Lost \cup {b}) \in Nat
    <3>1. CASE b \in Lost
      <4>1. Lost \cup {b} = Lost
        BY <3>1
      <4>2. QED
        BY <2>1, <4>1
    <3>2. CASE b \notin Lost
      <4>1. IsFiniteSet(Lost \cup {b}) /\ Cardinality(Lost \cup {b}) = Cardinality(Lost) + 1
        BY <2>1, <3>2, FS_AddElement
      <4>2. QED
        BY <2>1, <4>1
    <3>3. QED
      BY <3>1, <3>2
  <2>3. Cardinality(Lost') <= Cardinality(Lost \cup {b})
    BY <1>4, <2>2, FS_Subset
  <2>4. QED
    BY <1>1, <2>1, <2>2, <2>3 DEF Counted, Ticking
<1>6. CASE b = None
  <2>1. assert' # "none"
    BY <1>2, <1>6 DEF rx_enable
  <2>2. QED
    BY <1>1, <1>5, <2>1 DEF Counted
<1>7. CASE b # None
  <2>1. nxt' = None /\ old' = None
    BY <1>1, <1>2, <1>7 DEF rx_enable
  <2>2. Shifted' /\ Alternating'
    BY <1>3, <1>7, <2>1 DEF Shifted, Alternating, EmptyList, Slot, Base, Taken
  <2>3. QED
    BY <1>1, <1>5, <2>2 DEF Counted
<1>8. QED
  BY <1>6, <1>7

LEMMA LInvInductive == LInv /\ [Next]_vars => LInv'
<1> SUFFICES ASSUME LInv, [Next]_vars, downs' = 0 PROVE Counted'
  BY OInvInductive DEF LInv
<1>1. downs = 0 /\ ~uart_uninit /\ OInv'
  BY OInvInductive DEF LInv, OInv, TypeOK, Next, uart_init, uart_uninit, Fill, BufRequest,
     BufReleased, BufReturned, RxStopped, RxDisabled, Renable, vars
<1>2. CASE UNCHANGED vars
  BY <1>1, <1>2 DEF LInv, Counted, vars, registry, hardware, Fresh, Shifted, Alternating, Lost,
     Registered, Ticking, Base, Taken
<1>3. QED
  BY <1>1, <1>2, uart_initCounted, FillCounted, BufRequestCounted, BufReleasedCounted,
     OthersCounted, RenableCounted DEF Next

\* Until uart_uninit is called each receive error loses at most one block of the slab,
\* in both orders of requests and releases (reset_memory_slab, get_buffer).
THEOREM LeakCounted == Spec => []LeakBounded
<1>1. Init => LInv
  <2> SUFFICES ASSUME Init PROVE LInv
    OBVIOUS
  <2>1. Fresh /\ Lost = {} /\ ~timer /\ stops = 0 /\ rxState = "off"
    BY DEF Init, Fresh, EmptyList, Lost
  <2>2. QED
    BY <2>1, InitSafe, FS_EmptySet DEF LInv, Counted, Ticking
<1>2. LInv => LeakBounded
  <2> SUFFICES ASSUME LInv, downs = 0 PROVE Cardinality(Lost) <= stops
    BY DEF LeakBounded, Lost
  <2>1. Cardinality(Lost) \in Nat /\ stops \in Nat /\ Ticking \in 0..1
    BY LostFinite DEF Lost, LInv, OInv, TypeOK, Ticking
  <2>2. QED
    BY <2>1 DEF LInv, Counted
<1>3. QED
  BY <1>1, <1>2, LInvInductive, PTL DEF Spec
=============================================================================
