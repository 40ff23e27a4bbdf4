---------------------------- MODULE PartsProofs -----------------------------
(***************************************************************************)
(* Theorems about the parts of the program that MCParts puts next to each  *)
(* other, each for every value of its own constants.                       *)
(***************************************************************************)
EXTENDS MCParts, TextProofs

-----------------------------------------------------------------------------
(***************************************************************************)
(* Sockets.  Between the addresses no socket is open, and at an address    *)
(* just the one at hand; an error is remembered before a connection is     *)
(* given up, which is how a client that is left without a socket has one.  *)
(***************************************************************************)
SocketTypes ==
  /\ made \in Nat /\ left \in Nat /\ sock \in Nat /\ info \in BOOLEAN /\ client \in BOOLEAN
  /\ step \in {"resolve", "try", "made", "ready", "returned", "reported"}

OneAtHand ==
  /\ openSocks = IF sock = Invalid THEN {} ELSE {sock}
  /\ step \in {"made", "ready"} => sock # Invalid
  /\ step \in {"resolve", "try"} => sock = Invalid

AddressesFreed == step \in {"resolve", "returned", "reported"} => info = FALSE

ToldOfErrors == step = "reported" /\ client => (result = "success" <=> sock # Invalid)

SocketInv == SocketTypes /\ OneAtHand /\ AddressesFreed /\ ToldOfErrors

\* A call of create_socket begins with nothing open.
LEMMA SocketInitInv == SocketInit => SocketInv
<1> SUFFICES ASSUME SocketInit PROVE SocketInv
  OBVIOUS
<1> USE DEF SocketInit, Invalid
<1>1. SocketTypes
  BY DEF SocketTypes
<1>2. OneAtHand
  BY DEF OneAtHand
<1>3. AddressesFreed /\ ToldOfErrors
  BY DEF AddressesFreed, ToldOfErrors
<1> QED BY <1>1, <1>2, <1>3 DEF SocketInv

\* Neither a system call that fails nor one that succeeds breaks that.
LEMMA SocketNextInv == ASSUME SocketInv, [SocketNext]_socketVars PROVE SocketInv'
<1> USE DEF Invalid, ends, Step, CloseSocketAtHand, Resolve, ResolveUnix, TryNext, SetCloexec,
            BindAndListen, BindInternal, Connect, ReportError
<1>1. SocketTypes /\ OneAtHand /\ AddressesFreed /\ ToldOfErrors
  BY DEF SocketInv
<1>2. CASE UNCHANGED socketVars
  BY <1>1, <1>2 DEF socketVars, SocketInv, SocketTypes, OneAtHand, AddressesFreed, ToldOfErrors
<1>3. CASE SocketNext
  <2>1. SocketTypes'
    <3>1. made' \in Nat /\ left' \in Nat /\ sock' \in Nat
      BY <1>1, <1>3, SocketAssumption DEF SocketTypes, SocketNext
    <3>2. info' \in BOOLEAN /\ client' \in BOOLEAN
      BY <1>1, <1>3, Zenon DEF SocketTypes, SocketNext
    <3>3. step' \in {"resolve", "try", "made", "ready", "returned", "reported"}
      BY <1>3 DEF SocketNext
    <3> QED BY <3>1, <3>2, <3>3 DEF SocketTypes
  <2>2. OneAtHand'
    <3>1. CASE Resolve \/ ResolveUnix \/ TryNext
      BY <1>1, <3>1 DEF OneAtHand, SocketTypes
    <3>2. CASE SetCloexec \/ BindAndListen \/ BindInternal \/ Connect \/ ReportError
      BY <1>1, <3>2 DEF OneAtHand
    <3> QED BY <1>3, <3>1, <3>2 DEF SocketNext
  <2>3. AddressesFreed'
    BY <1>1, <1>3 DEF SocketNext, AddressesFreed
  <2>4. ToldOfErrors'
    BY <1>1, <1>3 DEF SocketNext, ToldOfErrors, OneAtHand
  <2> QED BY <2>1, <2>2, <2>3, <2>4 DEF SocketInv
<1> QED BY <1>2, <1>3

\* What SocketSetup says of the end follows.
LEMMA SocketInvBalanced == SocketInv => SocketsBalanced
BY DEF SocketInv, SocketTypes, OneAtHand, AddressesFreed, ToldOfErrors, SocketsBalanced

-----------------------------------------------------------------------------
(***************************************************************************)
(* Libraries.  Each object that holds a library's handle accounts for one  *)
(* of the times that it is open; a move hands the handle over.             *)
(***************************************************************************)
Holders(l) == {o \in Objects : handle[o] = l}

DylibInv ==
  /\ handle \in [Objects -> Libraries \cup {NoObject, Null}]
  /\ refs \in [Libraries -> Nat]
  /\ \A l \in Libraries : refs[l] = Cardinality(Holders(l))

\* The objects that hold a library can be counted.
LEMMA HoldersFinite ==
  ASSUME NEW l PROVE IsFiniteSet(Holders(l)) /\ Cardinality(Holders(l)) \in Nat
BY DylibAssumption, FS_Subset, FS_CardinalityType DEF Holders

\* One element takes the place of another.
LEMMA ExchangeElement ==
  ASSUME NEW S, IsFiniteSet(S), NEW p \in S, NEW o, o \notin S
  PROVE  Cardinality((S \ {p}) \cup {o}) = Cardinality(S)
<1>1. /\ IsFiniteSet(S \ {p}) /\ Cardinality(S \ {p}) = Cardinality(S) - 1
      /\ Cardinality(S) \in Nat
  BY FS_RemoveElement, FS_CardinalityType
<1>2. Cardinality((S \ {p}) \cup {o}) = Cardinality(S \ {p}) + 1
  BY <1>1, FS_AddElement
<1> QED BY <1>1, <1>2

\* At first nothing is loaded.
LEMMA DylibInitInv == DylibInit => DylibInv
<1> SUFFICES ASSUME DylibInit PROVE DylibInv
  OBVIOUS
<1>1. \A l \in Libraries : Holders(l) = {}
  BY DylibAssumption DEF DylibInit, Holders
<1> QED BY <1>1, FS_EmptySet DEF DylibInit, DylibInv

\* Loads, moves, swaps and destructions keep the count right.
LEMMA DylibNextInv == ASSUME DylibInv, [DylibNext]_dylibVars PROVE DylibInv'
<1>1. /\ handle \in [Objects -> Libraries \cup {NoObject, Null}] /\ refs \in [Libraries -> Nat]
      /\ \A l \in Libraries : refs[l] = Cardinality(Holders(l))
  BY DEF DylibInv
<1>2. ASSUME NEW o \in Objects, NEW l \in Libraries, Load(o, l) PROVE DylibInv'
  <2>1. /\ handle[o] = NoObject /\ handle' = [handle EXCEPT ![o] = l]
        /\ refs' = [refs EXCEPT ![l] = @ + 1]
    BY <1>2 DEF Load, Alive
  <2>2. handle' \in [Objects -> Libraries \cup {NoObject, Null}] /\ refs' \in [Libraries -> Nat]
    BY <1>1, <2>1
  <2>3. Holders(l)' = Holders(l) \cup {o} /\ o \notin Holders(l)
    BY <1>1, <2>1, DylibAssumption DEF Holders
  <2>4. \A k \in Libraries \ {l} : Holders(k)' = Holders(k)
    BY <1>1, <2>1, DylibAssumption DEF Holders
  <2>5. Cardinality(Holders(l)') = Cardinality(Holders(l)) + 1
    BY <2>3, HoldersFinite, FS_AddElement
  <2> QED BY <1>1, <2>1, <2>2, <2>4, <2>5 DEF DylibInv
<1>3. ASSUME NEW o \in Objects, NEW p \in Objects, Swapped(o, p), refs' = refs PROVE DylibInv'
  <2>1. handle' = [handle EXCEPT ![o] = handle[p], ![p] = handle[o]]
    BY <1>3 DEF Swapped
  <2>2. handle' \in [Objects -> Libraries \cup {NoObject, Null}]
    BY <1>1, <2>1
  <2>3. ASSUME NEW l \in Libraries PROVE Cardinality(Holders(l)') = Cardinality(Holders(l))
    <3>1. CASE handle[o] = handle[p]
      <4>1. Holders(l)' = Holders(l)
        BY <1>1, <2>1, <3>1 DEF Holders
      <4> QED BY <4>1
    <3>2. CASE handle[o] = l /\ handle[p] # l
      <4>1. Holders(l)' = (Holders(l) \ {o}) \cup {p} /\ o \in Holders(l) /\ p \notin Holders(l)
        BY <1>1, <2>1, <3>2 DEF Holders
      <4> QED BY <4>1, HoldersFinite, ExchangeElement
    <3>3. CASE handle[p] = l /\ handle[o] # l
      <4>1. Holders(l)' = (Holders(l) \ {p}) \cup {o} /\ p \in Holders(l) /\ o \notin Holders(l)
        BY <1>1, <2>1, <3>3 DEF Holders
      <4> QED BY <4>1, HoldersFinite, ExchangeElement
    <3>4. CASE handle[p] # l /\ handle[o] # l
      <4>1. Holders(l)' = Holders(l)
        BY <1>1, <2>1, <3>4 DEF Holders
      <4> QED BY <4>1
    <3> QED BY <3>1, <3>2, <3>3, <3>4
  <2> QED BY <1>1, <1>3, <2>2, <2>3 DEF DylibInv
<1>4. ASSUME NEW o \in Objects, NEW p \in Objects, MoveConstruct(o, p) PROVE DylibInv'
  <2>1. /\ handle[o] = NoObject /\ handle[p] # NoObject /\ refs' = refs
        /\ handle' = [handle EXCEPT ![o] = handle[p], ![p] = Null]
    BY <1>4 DEF MoveConstruct, Alive
  <2>2. handle' \in [Objects -> Libraries \cup {NoObject, Null}]
    BY <1>1, <2>1
  <2>3. ASSUME NEW l \in Libraries PROVE Cardinality(Holders(l)') = Cardinality(Holders(l))
    <3>1. CASE handle[p] = l
      <4>1. Holders(l)' = (Holders(l) \ {p}) \cup {o} /\ p \in Holders(l) /\ o \notin Holders(l)
        BY <1>1, <2>1, <3>1, DylibAssumption DEF Holders
      <4> QED BY <4>1, HoldersFinite, ExchangeElement
    <3>2. CASE handle[p] # l
      <4>1. Holders(l)' = Holders(l)
        BY <1>1, <2>1, <3>2, DylibAssumption DEF Holders
      <4> QED BY <4>1
    <3> QED BY <3>1, <3>2
  <2> QED BY <1>1, <2>1, <2>2, <2>3 DEF DylibInv
<1>5. ASSUME NEW o \in Objects, Destroy(o) PROVE DylibInv'
  <2>1. /\ handle[o] # NoObject /\ handle' = [handle EXCEPT ![o] = NoObject]
        /\ refs' = IF handle[o] = Null THEN refs ELSE [refs EXCEPT ![handle[o]] = @ - 1]
    BY <1>5 DEF Destroy, Alive
  <2>2. handle' \in [Objects -> Libraries \cup {NoObject, Null}]
    BY <1>1, <2>1
  <2>3. \A l \in Libraries \ {handle[o]} : Holders(l)' = Holders(l)
    BY <1>1, <2>1, DylibAssumption DEF Holders
  <2>4. CASE handle[o] = Null
    BY <1>1, <2>1, <2>2, <2>3, <2>4, DylibAssumption DEF DylibInv
  <2>5. CASE handle[o] # Null
    <3>1. PICK l \in Libraries : handle[o] = l
      BY <1>1, <2>1, <2>5
    <3>2. Holders(l)' = Holders(l) \ {o} /\ o \in Holders(l)
      BY <1>1, <2>1, <3>1, DylibAssumption DEF Holders
    <3>3. Cardinality(Holders(l)') = Cardinality(Holders(l)) - 1
          /\ Cardinality(Holders(l)') \in Nat
      BY <3>2, HoldersFinite, FS_RemoveElement, FS_Subset, FS_CardinalityType
    <3>4. refs' = [refs EXCEPT ![l] = Cardinality(Holders(l)')]
      BY <1>1, <2>1, <2>5, <3>1, <3>3
    <3> QED BY <1>1, <2>2, <2>3, <3>1, <3>3, <3>4 DEF DylibInv
  <2> QED BY <2>4, <2>5
<1>6. CASE UNCHANGED dylibVars
  BY <1>6 DEF dylibVars, DylibInv, Holders
<1> QED BY <1>2, <1>3, <1>4, <1>5, <1>6 DEF DylibNext, LoadFails, MoveAssign

\* A library whose handle somebody holds is open.
LEMMA DylibInvBalanced == DylibInv => HandlesBalanced
<1> SUFFICES ASSUME DylibInv PROVE HandlesBalanced
  OBVIOUS
<1>1. \A l \in Libraries : refs[l] = Cardinality({o \in Objects : handle[o] = l})
  BY DEF DylibInv, Holders
<1>2. ASSUME NEW o \in Objects, Alive(o), NEW s
      PROVE  /\ GetSymbol(o, s) = "found" <=> HasSymbol(o, s)
             /\ HasSymbol(o, s) => refs[handle[o]] > 0
  <2>1. GetSymbol(o, s) = "found" <=> HasSymbol(o, s)
    BY DEF GetSymbol, HasSymbol
  <2>2. ASSUME HasSymbol(o, s) PROVE refs[handle[o]] > 0
    <3>1. PICK l \in Libraries : handle[o] = l
      BY <1>2, <2>2 DEF HasSymbol, Alive, DylibInv
    <3>2. Holders(l) # {}
      BY <3>1 DEF Holders
    <3>3. Cardinality(Holders(l)) # 0 /\ Cardinality(Holders(l)) \in Nat
      BY <3>2, HoldersFinite, FS_EmptySet
    <3> QED BY <3>1, <3>3 DEF DylibInv
  <2> QED BY <2>1, <2>2
<1> QED BY <1>1, <1>2 DEF HandlesBalanced

-----------------------------------------------------------------------------
(***************************************************************************)
(* Files.  Only a file that is open has a mapping, and only POSIX takes a  *)
(* mapping that failed for one.                                            *)
(***************************************************************************)
FileInv ==
  /\ build \in {"posix", "windows"}
  /\ at \in {"open", "size", "map", "view", "opened", "failed", "destroyed"}
  /\ at \in {"open", "size", "map", "failed"} => mapping = FALSE /\ addr = "null"
  /\ at = "open" => file = FALSE
  /\ at = "view" => build = "windows"
  /\ at = "failed" /\ file # FALSE => build = "windows"
  /\ at = "destroyed" => file = FALSE /\ mapping = FALSE /\ addr = "null"

\* At first no file is open.
LEMMA FileInitInv == FileInit => FileInv
BY DEF FileInit, FileInv

\* No step of mmap keeps a mapping of a file that is closed.
LEMMA FileNextInv == ASSUME FileInv, [FileNext]_fileVars PROVE FileInv'
<1> USE DEF FileInv, Closed
<1>1. CASE OpenFile /\ build' = build
  BY <1>1 DEF OpenFile
<1>4. CASE AskSize /\ build' = build
  BY <1>4 DEF AskSize
<1>5. CASE MapPosix /\ build' = build
  BY <1>5 DEF MapPosix
<1>2. CASE (MapWindows \/ ViewWindows \/ DestroyMap) /\ build' = build
  BY <1>2 DEF MapWindows, ViewWindows, DestroyMap
<1>3. CASE UNCHANGED fileVars
  BY <1>3 DEF fileVars
<1> QED BY <1>1, <1>2, <1>3, <1>4, <1>5 DEF FileNext

\* What FileMap says of the end follows.
LEMMA FileInvBalanced == FileInv => FilesBalanced
BY DEF FileInv, FilesBalanced

-----------------------------------------------------------------------------
(***************************************************************************)
(* Results.  Those handed over are the first ones, in order, and those in  *)
(* the queue follow; every push wakes a sleeper while there is one, and a  *)
(* thread falls asleep only when nothing waits.                            *)
(***************************************************************************)
Numbered ==
  /\ results \in Seq(Nat) /\ popped \in Seq(Nat) /\ pushed = Len(popped) + Len(results)
  /\ \A i \in 1..Len(popped) : popped[i] = i
  /\ \A i \in 1..Len(results) : results[i] = Len(popped) + i

Awakened ==
  /\ popper \in [Poppers -> {"outside", "asleep", "awake"}]
  /\ Those("asleep") # {} => Len(results) <= Cardinality(Those("awake"))

QueueInv == Numbered /\ Awakened

\* The threads in a given situation can be counted.
LEMMA ThoseFinite ==
  ASSUME NEW s PROVE IsFiniteSet(Those(s)) /\ Cardinality(Those(s)) \in Nat
BY SyncQueueAssumption, FS_Subset, FS_CardinalityType DEF Those

\* An empty queue has handed over nothing, and nobody sleeps.
LEMMA QueueInitInv == QueueInit => QueueInv
<1> SUFFICES ASSUME QueueInit PROVE QueueInv
  OBVIOUS
<1>1. Numbered
  BY DEF QueueInit, Numbered
<1>2. Awakened
  BY DEF QueueInit, Awakened, Those
<1> QED BY <1>1, <1>2 DEF QueueInv

\* A thread wakes: there is one more awake, and no new sleeper.
LEMMA Wakes ==
  ASSUME Awakened, NEW c \in Poppers, popper[c] = "asleep",
         popper' = [popper EXCEPT ![c] = "awake"]
  PROVE  /\ popper' \in [Poppers -> {"outside", "asleep", "awake"}]
         /\ Those("asleep") # {}
         /\ Cardinality(Those("awake")') = Cardinality(Those("awake")) + 1
<1>1. Those("awake")' = Those("awake") \cup {c} /\ c \notin Those("awake")
  BY DEF Awakened, Those
<1>2. Cardinality(Those("awake")') = Cardinality(Those("awake")) + 1
  BY <1>1, ThoseFinite, FS_AddElement
<1> QED BY <1>2 DEF Awakened, Those

\* Neither a push, a pop nor a spurious wake-up breaks that.
LEMMA QueueNextInv == ASSUME QueueInv, [QueueNext]_queueVars PROVE QueueInv'
<1>1. /\ results \in Seq(Nat) /\ popped \in Seq(Nat) /\ Len(results) \in Nat /\ Len(popped) \in Nat
      /\ Cardinality(Those("awake")) \in Nat
      /\ popper \in [Poppers -> {"outside", "asleep", "awake"}]
  BY ThoseFinite DEF QueueInv, Numbered, Awakened
<1>2. CASE Push
  <2>1. /\ pushed' = pushed + 1 /\ results' = Append(results, pushed + 1) /\ popped' = popped
        /\ NotifyOne
    BY <1>2 DEF Push
  <2>2. Numbered'
    <3>1. /\ results' \in Seq(Nat) /\ Len(results') = Len(results) + 1
          /\ \A i \in 1..Len(results) : results'[i] = results[i]
          /\ results'[Len(results) + 1] = Len(popped) + Len(results) + 1
      BY <1>1, <2>1 DEF QueueInv, Numbered
    <3>2. \A i \in 1..Len(results') : results'[i] = Len(popped) + i
      <4> TAKE i \in 1..Len(results')
      <4>1. i \in 1..Len(results) \/ i = Len(results) + 1
        BY <1>1, <3>1
      <4>2. CASE i \in 1..Len(results)
        <5>1. results[i] = Len(popped) + i
          BY <4>2 DEF QueueInv, Numbered
        <5> QED BY <3>1, <4>2, <5>1
      <4>3. CASE i = Len(results) + 1
        <5>1. Len(popped) + Len(results) + 1 = Len(popped) + i
          BY ONLY <1>1, <4>3
        <5> QED BY <3>1, <4>3, <5>1
      <4> QED BY <4>1, <4>2, <4>3
    <3>3. pushed' = Len(popped') + Len(results')
      <4>1. pushed = Len(popped) + Len(results)
        BY DEF QueueInv, Numbered
      <4>2. Len(popped') = Len(popped)
        BY <2>1
      <4> QED BY ONLY <1>1, <2>1, <3>1, <4>1, <4>2
    <3>4. popped' \in Seq(Nat) /\ \A i \in 1..Len(popped') : popped'[i] = i
      BY <1>1, <2>1 DEF QueueInv, Numbered
    <3>5. \A i \in 1..Len(results') : results'[i] = Len(popped') + i
      BY <2>1, <3>2
    <3> QED BY <3>1, <3>3, <3>4, <3>5 DEF Numbered
  <2>3. ASSUME Those("asleep") = {} PROVE Awakened'
    <3>1. popper' = popper /\ Those("asleep")' = {}
      BY <2>1, <2>3 DEF NotifyOne, Those
    <3> QED BY <1>1, <3>1 DEF Awakened
  <2>4. ASSUME NEW c \in Those("asleep"), popper' = [popper EXCEPT ![c] = "awake"]
        PROVE  Awakened'
    <3>1. c \in Poppers /\ popper[c] = "asleep" /\ Len(results') = Len(results) + 1
      BY <1>1, <2>1 DEF Those
    <3>2. /\ popper' \in [Poppers -> {"outside", "asleep", "awake"}]
          /\ Cardinality(Those("awake")') = Cardinality(Those("awake")) + 1
          /\ Len(results) <= Cardinality(Those("awake"))
      BY <2>4, <3>1, Wakes DEF QueueInv, Awakened
    <3> QED BY <1>1, <3>1, <3>2 DEF Awakened
  <2>5. Awakened'
    BY <2>1, <2>3, <2>4 DEF NotifyOne
  <2> QED BY <2>2, <2>5 DEF QueueInv
<1>3. ASSUME NEW c \in Poppers, WaitAndPop(c) PROVE QueueInv'
  <2>1. CASE results = << >>
    <3>1. popper' = [popper EXCEPT ![c] = "asleep"] /\ UNCHANGED <<results, popped, pushed>>
      BY <1>3, <2>1 DEF WaitAndPop
    <3>2. Numbered'
      BY <3>1 DEF QueueInv, Numbered
    <3>3. Len(results') = 0
      BY <2>1, <3>1
    <3>4. Cardinality(Those("awake")') \in Nat
      BY SyncQueueAssumption, FS_Subset, FS_CardinalityType DEF Those
    <3>5. popper' \in [Poppers -> {"outside", "asleep", "awake"}]
      BY <1>1, <3>1
    <3> QED BY <3>2, <3>3, <3>4, <3>5 DEF QueueInv, Awakened
  <2>2. CASE results # << >>
    <3>1. /\ popped' = Append(popped, Head(results)) /\ results' = Tail(results)
          /\ popper' = [popper EXCEPT ![c] = "outside"] /\ pushed' = pushed
          /\ popper[c] # "asleep"
      BY <1>3, <2>2 DEF WaitAndPop
    <3>2. /\ Head(results) = Len(popped) + 1 /\ Len(results) > 0
          /\ Len(results') = Len(results) - 1 /\ Len(popped') = Len(popped) + 1
      BY <1>1, <2>2, <3>1 DEF QueueInv, Numbered
    <3>3. Numbered'
      BY <1>1, <2>2, <3>1, <3>2 DEF QueueInv, Numbered
    <3>4. /\ popper' \in [Poppers -> {"outside", "asleep", "awake"}]
          /\ Those("asleep")' = Those("asleep")
      BY <1>1, <3>1 DEF Those
    <3>5. Cardinality(Those("awake")') >= Cardinality(Those("awake")) - 1
      <4>1. Those("awake")' = Those("awake") \ {c}
        BY <1>1, <3>1 DEF Those
      <4>2. CASE c \in Those("awake")
        <5>1. Cardinality(Those("awake") \ {c}) = Cardinality(Those("awake")) - 1
          BY <4>2, ThoseFinite, FS_RemoveElement
        <5>2. Cardinality(Those("awake")') = Cardinality(Those("awake") \ {c})
          BY <4>1
        <5> QED BY <1>1, <5>1, <5>2
      <4>3. CASE c \notin Those("awake")
        <5>1. Those("awake")' = Those("awake")
          BY <4>1, <4>3
        <5> QED BY <1>1, <5>1
      <4> QED BY <4>2, <4>3
    <3>6. Cardinality(Those("awake")') \in Nat
      BY SyncQueueAssumption, FS_Subset, FS_CardinalityType DEF Those
    <3>7. Awakened'
      BY <1>1, <3>2, <3>4, <3>5, <3>6 DEF QueueInv, Awakened
    <3> QED BY <3>3, <3>7 DEF QueueInv
  <2> QED BY <2>1, <2>2
<1>4. ASSUME NEW c \in Poppers, WakeSpuriously(c) PROVE QueueInv'
  <2>1. /\ popper[c] = "asleep" /\ popper' = [popper EXCEPT ![c] = "awake"]
        /\ UNCHANGED <<results, pushed, popped>>
    BY <1>4 DEF WakeSpuriously
  <2>2. /\ popper' \in [Poppers -> {"outside", "asleep", "awake"}]
        /\ Cardinality(Those("awake")') = Cardinality(Those("awake")) + 1
        /\ Len(results) <= Cardinality(Those("awake"))
    BY <2>1, Wakes DEF QueueInv, Awakened
  <2> QED BY <1>1, <2>1, <2>2 DEF QueueInv, Numbered, Awakened
<1>5. CASE UNCHANGED queueVars
  BY <1>5 DEF queueVars, QueueInv, Numbered, Awakened, Those
<1> QED BY <1>2, <1>3, <1>4, <1>5 DEF QueueNext

\* What SyncQueue says of results follows.
LEMMA QueueInvHandsOver == QueueInv => ResultsAreHandedOver
<1> SUFFICES ASSUME QueueInv PROVE popped \o results = [i \in 1..pushed |-> i]
  BY DEF QueueInv, Awakened, ResultsAreHandedOver
<1>1. /\ popped \in Seq(Nat) /\ results \in Seq(Nat) /\ pushed = Len(popped) + Len(results)
      /\ \A i \in 1..Len(popped) : popped[i] = i
      /\ \A i \in 1..Len(results) : results[i] = Len(popped) + i
  BY DEF QueueInv, Numbered
<1>2. /\ popped \o results \in Seq(Nat) /\ Len(popped \o results) = pushed
      /\ \A i \in 1..pushed : (popped \o results)[i] = i
  BY SMTT(30), <1>1
<1>3. \A s \in Seq(Nat) : s = [i \in 1..Len(s) |-> s[i]]
  OBVIOUS
<1>4. popped \o results = [i \in 1..pushed |-> (popped \o results)[i]]
  BY <1>2, <1>3
<1> QED BY <1>2, <1>4

-----------------------------------------------------------------------------
(***************************************************************************)
(* The client.  Only the thread that holds request_mutex_ has sends on its *)
(* stack: all but the innermost one wait for the redirect that they made,  *)
(* and each is in flight but one that has no socket yet, or got none.      *)
(***************************************************************************)
FramePoints == {"open", "write", "read", "closing", "closing, redirected", "redirected", "return",
                "done"}
FrameRecords == [at : FramePoints, redirects : Nat, stream : Nat, ret : BOOLEAN]

Stacked(s) ==
  /\ s \in Seq(FrameRecords)
  /\ \A i \in 1..Len(s) : s[i].redirects = MaxRedirects + 1 - i
  /\ \A i \in 1 .. Len(s) - 1 : s[i].at = "redirected"

InFlight(s) == IF s = << >> THEN 0
               ELSE IF Last(s).at \in {"open", "return"} THEN Len(s) - 1 ELSE Len(s)

ClientTypes ==
  /\ keepAlive \in BOOLEAN /\ shouldClose \in BOOLEAN /\ stopAsked \in BOOLEAN
  /\ created \in Nat /\ socket \in Nat /\ inFlight \in Nat
  /\ holder \in Threads \cup {NoThread}
  /\ frames \in [Threads -> Seq(FrameRecords)]

Stacks ==
  /\ \A t \in Threads : Stacked(frames[t])
  /\ \A t \in Threads : frames[t] # << >> <=> t = holder
  /\ holder = NoThread => inFlight = 0
  /\ holder # NoThread => inFlight = InFlight(frames[holder])
  /\ inFlight > 0 => fromThread = holder

OneSocket ==
  /\ live = IF socket = NoSocket THEN {} ELSE {socket}
  /\ \A t \in Threads :
       /\ In(t, "write") \/ In(t, "read") => socket # NoSocket /\ Last(frames[t]).stream = socket
       /\ In(t, "return") => socket = NoSocket

Given ==
  /\ stopAsked => shouldClose
  /\ inFlight = 0 /\ stopAsked => socket = NoSocket
  /\ holder = NoThread /\ ~keepAlive => socket = NoSocket

ClientInv == ClientTypes /\ Stacks /\ OneSocket /\ Given

\* The top of a stack, and what is below it.
LEMMA StackTop ==
  ASSUME NEW s, Stacked(s), s # << >>
  PROVE  /\ Len(s) \in Nat \ {0} /\ Last(s) \in FrameRecords /\ Last(s) = s[Len(s)]
         /\ Last(s).redirects = MaxRedirects + 1 - Len(s)
         /\ Front(s) \in Seq(FrameRecords) /\ Len(Front(s)) = Len(s) - 1
         /\ \A i \in 1 .. Len(s) - 1 : Front(s)[i] = s[i]
<1>1. s \in Seq(FrameRecords) /\ Len(s) \in Nat /\ Len(s) # 0 /\ Last(s) = s[Len(s)]
  BY DEF Stacked, Last
<1>2. Len(s) \in 1..Len(s)
  BY <1>1
<1>3. s[Len(s)] \in FrameRecords /\ s[Len(s)].redirects = MaxRedirects + 1 - Len(s)
  BY <1>1, <1>2 DEF Stacked
<1>4. /\ Front(s) \in Seq(FrameRecords) /\ Len(Front(s)) = Len(s) - 1
      /\ \A i \in 1 .. Len(s) - 1 : Front(s)[i] = s[i]
  <2>1. Front(s) = SubSeq(s, 1, Len(s) - 1)
    BY DEF Front
  <2>2. \A i \in 1 .. Len(s) - 1 : s[i] \in FrameRecords
    BY <1>1
  <2>3. 1 \in Int /\ Len(s) - 1 \in Int
    BY <1>1
  <2>4. /\ Front(s) \in Seq(FrameRecords)
        /\ Len(Front(s)) = IF 1 <= Len(s) - 1 THEN Len(s) - 1 - 1 + 1 ELSE 0
        /\ \A i \in 1 .. Len(s) - 1 - 1 + 1 : Front(s)[i] = s[1 + i - 1]
    BY <2>1, <2>2, <2>3, SubSeqProperties
  <2>5. Len(Front(s)) = Len(s) - 1
    <3>1. Len(s) \in Nat /\ Len(s) # 0
      BY <1>1
    <3>2. Len(Front(s)) = IF 1 <= Len(s) - 1 THEN Len(s) - 1 - 1 + 1 ELSE 0
      BY <2>4
    <3>3. CASE Len(s) = 1
      BY ONLY <3>1, <3>2, <3>3
    <3>4. CASE Len(s) > 1
      BY ONLY <3>1, <3>2, <3>4
    <3> QED BY <3>1, <3>3, <3>4
  <2>6. \A i \in 1 .. Len(s) - 1 : i \in 1 .. Len(s) - 1 - 1 + 1 /\ 1 + i - 1 = i
    BY <1>1
  <2>7. \A i \in 1 .. Len(s) - 1 : Front(s)[i] = s[i]
    BY <2>4, <2>6
  <2> QED BY <2>4, <2>5, <2>7
<1> QED BY <1>1, <1>3, <1>4

\* A change of the top.
LEMMA StackSet ==
  ASSUME NEW s, Stacked(s), s # << >>, NEW f \in FrameRecords, f.redirects = Last(s).redirects
  PROVE  LET u == Append(Front(s), f)
         IN  Stacked(u) /\ u # << >> /\ Len(u) = Len(s) /\ Last(u) = f
<1> DEFINE u == Append(Front(s), f)
<1>1. /\ Len(s) \in Nat \ {0} /\ Front(s) \in Seq(FrameRecords) /\ Len(Front(s)) = Len(s) - 1
      /\ \A i \in 1 .. Len(s) - 1 : Front(s)[i] = s[i]
      /\ f.redirects = MaxRedirects + 1 - Len(s)
  BY StackTop
<1>2. /\ u \in Seq(FrameRecords) /\ Len(u) = Len(s) /\ u[Len(s)] = f
      /\ \A i \in 1 .. Len(s) - 1 : u[i] = s[i]
  BY <1>1
<1> HIDE DEF u
<1>3. \A i \in 1..Len(u) : i \in 1 .. Len(s) - 1 \/ i = Len(s)
  BY <1>1, <1>2
<1>4. /\ \A i \in 1 .. Len(s) - 1 : i \in 1..Len(s)
      /\ \A i \in 1..Len(s) : s[i].redirects = MaxRedirects + 1 - i
      /\ \A i \in 1 .. Len(s) - 1 : s[i].at = "redirected"
  BY <1>1 DEF Stacked
<1>5. Stacked(u)
  BY <1>1, <1>2, <1>3, <1>4 DEF Stacked
<1>6. u # << >> /\ Last(u) = f
  BY <1>1, <1>2 DEF Last
<1> QED BY <1>2, <1>5, <1>6 DEF u

\* A redirect to the same server is a send within a send.
LEMMA StackPush ==
  ASSUME NEW s, Stacked(s), s # << >>, Last(s).at = "redirected", Last(s).redirects > 0
  PROVE  LET u == Append(s, Frame(Last(s).redirects - 1))
         IN  Stacked(u) /\ u # << >> /\ Len(u) = Len(s) + 1 /\ Last(u).at = "open"
<1> DEFINE f == Frame(Last(s).redirects - 1)
           u == Append(s, f)
<1>1. /\ Len(s) \in Nat \ {0} /\ s \in Seq(FrameRecords) /\ Last(s) = s[Len(s)]
      /\ Last(s).redirects = MaxRedirects + 1 - Len(s) /\ Last(s) \in FrameRecords
  BY StackTop DEF Stacked
<1>2. Last(s).redirects \in Nat
  BY <1>1 DEF FrameRecords
<1>3. Last(s).redirects - 1 \in Nat /\ Last(s).redirects - 1 = MaxRedirects + 1 - (Len(s) + 1)
  BY <1>1, <1>2, ClientAssumption
<1>4. f \in FrameRecords /\ f.redirects = MaxRedirects + 1 - (Len(s) + 1) /\ f.at = "open"
  <2>1. "open" \in FramePoints
    BY DEF FramePoints
  <2> QED BY <1>3, <2>1 DEF Frame, FrameRecords, NoSocket
<1> HIDE DEF f
<1>5. /\ u \in Seq(FrameRecords) /\ Len(u) = Len(s) + 1 /\ u[Len(s) + 1] = f
      /\ \A i \in 1..Len(s) : u[i] = s[i]
  BY <1>1, <1>4
<1> HIDE DEF u
<1>6. \A i \in 1..Len(u) : i \in 1..Len(s) \/ i = Len(s) + 1
  BY <1>1, <1>5
<1>7. \A i \in 1..Len(s) : i \in 1 .. Len(s) - 1 \/ i = Len(s)
  BY <1>1
<1>8. \A i \in 1 .. Len(u) - 1 : i \in 1..Len(s)
  BY <1>1, <1>5
<1>9. Stacked(u)
  BY <1>1, <1>4, <1>5, <1>6, <1>7, <1>8 DEF Stacked
<1>10. u # << >> /\ Last(u) = f
  BY <1>1, <1>5 DEF Last
<1> QED BY <1>4, <1>5, <1>9, <1>10 DEF u, f

\* It returns to the send that made it.
LEMMA StackPop ==
  ASSUME NEW s, Stacked(s), s # << >>, NEW b \in BOOLEAN
  PROVE  LET below == Front(s)
             u == Append(Front(below), [Last(below) EXCEPT !.at = "done", !.ret = b])
         IN  /\ below = << >> <=> Len(s) = 1
             /\ below # << >> =>
                  Stacked(u) /\ u # << >> /\ Len(u) = Len(s) - 1 /\ Last(u).at = "done"
<1> DEFINE below == Front(s)
           f == [Last(below) EXCEPT !.at = "done", !.ret = b]
           u == Append(Front(below), f)
<1>1. /\ Len(s) \in Nat \ {0} /\ below \in Seq(FrameRecords) /\ Len(below) = Len(s) - 1
      /\ \A i \in 1 .. Len(s) - 1 : below[i] = s[i]
  BY StackTop
<1> HIDE DEF below
<1>2. below = << >> <=> Len(s) = 1
  BY <1>1
<1>3. Stacked(below)
  <2>1. \A i \in 1..Len(below) : i \in 1..Len(s) /\ i \in 1 .. Len(s) - 1
    BY <1>1
  <2>2. \A i \in 1 .. Len(below) - 1 : i \in 1..Len(below)
    BY <1>1
  <2> QED BY <1>1, <2>1, <2>2 DEF Stacked
<1>4. ASSUME below # << >>
      PROVE  Stacked(u) /\ u # << >> /\ Len(u) = Len(s) - 1 /\ Last(u).at = "done"
  <2>1. Last(below) \in FrameRecords
    BY <1>3, <1>4, StackTop
  <2>2. f \in FrameRecords /\ f.redirects = Last(below).redirects /\ f.at = "done"
    <3>1. "done" \in FramePoints
      BY DEF FramePoints
    <3> QED BY ONLY <2>1, <3>1, b \in BOOLEAN DEF FrameRecords
  <2> HIDE DEF f
  <2> QED BY <1>1, <1>3, <1>4, <2>2, StackSet
<1> QED BY <1>2, <1>4 DEF below

\* A thread in a send is the one that holds the mutex.
LEMMA InASend ==
  ASSUME ClientInv, NEW t \in Threads, NEW point, In(t, point)
  PROVE  /\ t = holder /\ holder # NoThread /\ frames[t] # << >> /\ Stacked(frames[t])
         /\ Last(frames[t]) \in FrameRecords /\ Last(frames[t]).at = point
         /\ inFlight = InFlight(frames[t]) /\ inFlight \in Nat /\ Len(frames[t]) \in Nat \ {0}
<1>1. frames[t] # << >> /\ Stacked(frames[t]) /\ t = holder /\ Last(frames[t]).at = point
  BY DEF In, ClientInv, Stacks
<1>2. holder # NoThread
  BY <1>1, ClientAssumption
<1>3. Last(frames[t]) \in FrameRecords /\ Len(frames[t]) \in Nat \ {0}
  BY <1>1, StackTop
<1>4. inFlight = InFlight(frames[t]) /\ inFlight \in Nat
  BY <1>1, <1>2 DEF ClientInv, Stacks, ClientTypes
<1> QED BY <1>1, <1>2, <1>3, <1>4

\* The holder's stack changes, and nobody else's.
LEMMA Restacked ==
  ASSUME ClientInv, NEW t \in Threads, holder \in {t, NoThread}, NEW s, Stacked(s), s # << >>,
         frames' = [frames EXCEPT ![t] = s], holder' = t,
         inFlight' = InFlight(s), inFlight' > 0 => fromThread' = t
  PROVE  /\ Stacks' /\ frames' \in [Threads -> Seq(FrameRecords)]
         /\ holder' \in Threads \cup {NoThread} /\ holder' # NoThread
         /\ frames'[t] = s /\ \A x \in Threads : x # t => frames'[x] = << >>
<1>1. /\ frames \in [Threads -> Seq(FrameRecords)] /\ \A x \in Threads : Stacked(frames[x])
      /\ \A x \in Threads : frames[x] # << >> <=> x = holder
  BY DEF ClientInv, ClientTypes, Stacks
<1>2. s \in Seq(FrameRecords)
  BY DEF Stacked
<1>3. frames' \in [Threads -> Seq(FrameRecords)]
  BY <1>1, <1>2
<1>4. frames'[t] = s /\ \A x \in Threads : x # t => frames'[x] = << >>
  BY <1>1, ClientAssumption
<1>5. \A x \in Threads : Stacked(frames'[x])
  BY <1>1, <1>3, <1>4
<1>6. holder' # NoThread
  BY ClientAssumption
<1>7. \A x \in Threads : frames'[x] # << >> <=> x = holder'
  BY <1>4
<1>8. Stacks'
  BY <1>4, <1>5, <1>6, <1>7 DEF Stacks, Stacked, InFlight
<1> QED BY <1>3, <1>4, <1>6, <1>8

\* The send at hand goes on to another point.
LEMMA MovesOn ==
  ASSUME ClientInv, NEW t \in Threads, NEW point, In(t, point),
         NEW f \in FrameRecords, f.redirects = Last(frames[t]).redirects, Set(t, f),
         holder' = holder,
         inFlight' = IF f.at \in {"open", "return"} THEN Len(frames[t]) - 1 ELSE Len(frames[t]),
         inFlight' > 0 => fromThread' = t
  PROVE  /\ Stacks' /\ frames' \in [Threads -> Seq(FrameRecords)]
         /\ holder' \in Threads \cup {NoThread} /\ holder' # NoThread
         /\ inFlight' \in Nat
         /\ Last(frames'[t]) = f
         /\ \A x \in Threads : x # t => frames'[x] = << >>
<1> DEFINE s == Append(Front(frames[t]), f)
<1>1. /\ t = holder /\ frames[t] # << >> /\ Stacked(frames[t]) /\ Len(frames[t]) \in Nat \ {0}
      /\ frames \in [Threads -> Seq(FrameRecords)]
  BY InASend DEF ClientInv, ClientTypes
<1>2. Stacked(s) /\ s # << >> /\ Len(s) = Len(frames[t]) /\ Last(s) = f
  BY <1>1, StackSet
<1>3. frames' = [frames EXCEPT ![t] = s]
  BY DEF Set
<1> HIDE DEF s
<1>4. inFlight' = InFlight(s)
  BY <1>2 DEF InFlight
<1>5. inFlight' \in Nat
  BY <1>1
<1>6. /\ Stacks' /\ frames' \in [Threads -> Seq(FrameRecords)]
      /\ holder' \in Threads \cup {NoThread} /\ holder' # NoThread
      /\ frames'[t] = s /\ \A x \in Threads : x # t => frames'[x] = << >>
  BY <1>1, <1>2, <1>3, <1>4, Restacked
<1> QED BY <1>2, <1>5, <1>6

\* What is left to show of a step of a thread that keeps the mutex.
LEMMA KeepsTheMutex ==
  ASSUME NEW t \in Threads, \A x \in Threads : x # t => frames'[x] = << >>,
         holder' # NoThread, NEW f, Last(frames'[t]) = f,
         keepAlive' \in BOOLEAN, shouldClose' \in BOOLEAN, stopAsked' \in BOOLEAN,
         created' \in Nat, socket' \in Nat, inFlight' \in Nat,
         holder' \in Threads \cup {NoThread}, frames' \in [Threads -> Seq(FrameRecords)],
         Stacks',
         live' = IF socket' = NoSocket THEN {} ELSE {socket'},
         f.at \in {"write", "read"} => socket' # NoSocket /\ f.stream = socket',
         f.at = "return" => socket' = NoSocket,
         stopAsked' => shouldClose',
         inFlight' = 0 /\ stopAsked' => socket' = NoSocket
  PROVE  ClientInv'
<1>1. ClientTypes'
  BY DEF ClientTypes
<1>2. OneSocket'
  BY DEF OneSocket, In, NoSocket
<1>3. Given'
  BY DEF Given
<1> QED BY <1>1, <1>2, <1>3 DEF ClientInv

\* A thread takes the mutex and begins a send.
LEMMA Sends == ASSUME ClientInv, NEW t \in Threads, Send(t) PROVE ClientInv'
<1> DEFINE s == <<Frame(MaxRedirects)>>
<1>1. /\ frames[t] = << >> /\ holder = NoThread /\ holder' = t /\ frames' = [frames EXCEPT ![t] = s]
      /\ UNCHANGED <<keepAlive, socket, created, live, shut, hungUp, inFlight, fromThread,
                     shouldClose, stopAsked>>
  BY DEF Send, sockets, locked
<1>2. Frame(MaxRedirects) \in FrameRecords
  <2>1. "open" \in FramePoints
    BY DEF FramePoints
  <2> QED BY <2>1, ClientAssumption DEF Frame, FrameRecords, NoSocket
<1>3. Stacked(s) /\ s # << >> /\ Last(s) = Frame(MaxRedirects) /\ Len(s) = 1
  BY <1>2, ClientAssumption DEF Stacked, Last, Frame
<1> HIDE DEF s
<1>4. inFlight = 0 /\ inFlight' = 0 /\ InFlight(s) = 0
  BY <1>1, <1>3 DEF ClientInv, Stacks, InFlight, Frame
<1>5. /\ Stacks' /\ frames' \in [Threads -> Seq(FrameRecords)]
      /\ holder' \in Threads \cup {NoThread} /\ holder' # NoThread
      /\ frames'[t] = s /\ \A x \in Threads : x # t => frames'[x] = << >>
  <2>1. inFlight' = InFlight(s) /\ (inFlight' > 0 => fromThread' = t) /\ holder \in {t, NoThread}
    BY <1>1, <1>4
  <2> QED BY <1>1, <1>3, <2>1, Restacked
<1>6. /\ keepAlive' \in BOOLEAN /\ shouldClose' \in BOOLEAN /\ stopAsked' \in BOOLEAN
      /\ created' \in Nat /\ socket' \in Nat /\ inFlight' \in Nat
  BY <1>1, Zenon DEF ClientInv, ClientTypes
<1>7. /\ live' = IF socket' = NoSocket THEN {} ELSE {socket'}
      /\ stopAsked' => shouldClose'
      /\ inFlight' = 0 /\ stopAsked' => socket' = NoSocket
  BY <1>1 DEF ClientInv, OneSocket, Given
<1>8. Last(frames'[t]).at = "open"
  BY <1>3, <1>5 DEF Frame
<1> QED BY <1>5, <1>6, <1>7, <1>8, KeepsTheMutex

\* A record of the send at hand with another point, or at its beginning with its
\* stream, or at its end with its result.
LEMMA FrameTo ==
  ASSUME NEW f \in FrameRecords, NEW point \in FramePoints
  PROVE  LET g == [f EXCEPT !.at = point] IN
         g \in FrameRecords /\ g.at = point /\ g.redirects = f.redirects /\ g.stream = f.stream
BY DEF FrameRecords

\* The record of a send that has got its socket.
LEMMA FrameOpened ==
  ASSUME NEW f \in FrameRecords, NEW n \in Nat
  PROVE  LET g == [f EXCEPT !.at = "write", !.stream = n] IN
         g \in FrameRecords /\ g.at = "write" /\ g.redirects = f.redirects /\ g.stream = n
<1>1. "write" \in FramePoints
  BY DEF FramePoints
<1> QED BY <1>1 DEF FrameRecords

\* The record of a send that has its result.
LEMMA FrameDone ==
  ASSUME NEW f \in FrameRecords, NEW b \in BOOLEAN
  PROVE  LET g == [f EXCEPT !.at = "done", !.ret = b] IN
         g \in FrameRecords /\ g.at = "done" /\ g.redirects = f.redirects
<1>1. "done" \in FramePoints
  BY DEF FramePoints
<1> QED BY <1>1 DEF FrameRecords

\* A kept socket that is alive is used, a dead one replaced; or there is none.
LEMMA OpensSocket == ASSUME ClientInv, NEW t \in Threads, OpenSocket(t) PROVE ClientInv'
<1>1. /\ In(t, "open") /\ shouldClose' = FALSE /\ stopAsked' = FALSE
      /\ keepAlive' = keepAlive /\ holder' = holder
  BY DEF OpenSocket
<1>2. /\ t = holder /\ frames[t] # << >> /\ Last(frames[t]) \in FrameRecords
      /\ Len(frames[t]) \in Nat \ {0} /\ inFlight = Len(frames[t]) - 1
      /\ inFlight > 0 => fromThread = t
  BY <1>1, InASend DEF InFlight, ClientInv, Stacks
<1>3. /\ keepAlive' \in BOOLEAN /\ shouldClose' \in BOOLEAN /\ stopAsked' \in BOOLEAN
  BY <1>1, Zenon DEF ClientInv, ClientTypes
<1>4. /\ live = IF socket = NoSocket THEN {} ELSE {socket}
      /\ created \in Nat /\ socket \in Nat
  BY DEF ClientInv, OneSocket, ClientTypes
<1>5. ASSUME inFlight' = inFlight + 1, fromThread' = t,
             Set(t, [Last(frames[t]) EXCEPT !.at = "write", !.stream = socket']),
             socket' \in Nat, created' \in Nat, socket' # NoSocket, live' = {socket'}
      PROVE  ClientInv'
  <2> DEFINE f == [Last(frames[t]) EXCEPT !.at = "write", !.stream = socket']
  <2>2. /\ f \in FrameRecords /\ f.at = "write" /\ f.stream = socket'
        /\ f.redirects = Last(frames[t]).redirects
    BY <1>2, <1>5, FrameOpened
  <2>3. Set(t, f)
    BY <1>5
  <2> HIDE DEF f
  <2>4. inFlight' = Len(frames[t]) /\ inFlight' # 0
    BY <1>2, <1>5
  <2>5. /\ Stacks' /\ frames' \in [Threads -> Seq(FrameRecords)]
        /\ holder' \in Threads \cup {NoThread} /\ holder' # NoThread /\ inFlight' \in Nat
        /\ Last(frames'[t]) = f /\ \A x \in Threads : x # t => frames'[x] = << >>
    BY <1>1, <1>5, <2>2, <2>3, <2>4, MovesOn
  <2> QED BY <1>1, <1>3, <1>5, <2>2, <2>4, <2>5, KeepsTheMutex
<1>6. ASSUME IsAlive, UNCHANGED sockets, inFlight' = inFlight + 1, fromThread' = t,
             Set(t, [Last(frames[t]) EXCEPT !.at = "write", !.stream = socket'])
      PROVE  ClientInv'
  <2>1. socket' \in Nat /\ created' \in Nat /\ socket' # NoSocket /\ live' = {socket'}
    BY <1>4, <1>6 DEF IsAlive, sockets
  <2> QED BY <1>5, <1>6, <2>1
<1>7. ASSUME CreateAndConnect, inFlight' = inFlight + 1, fromThread' = t,
             Set(t, [Last(frames[t]) EXCEPT !.at = "write", !.stream = socket'])
      PROVE  ClientInv'
  <2>1. socket' \in Nat /\ created' \in Nat /\ socket' # NoSocket /\ live' = {socket'}
    BY <1>4, <1>7 DEF CreateAndConnect, NoSocket
  <2> QED BY <1>5, <1>7, <2>1
<1>8. ASSUME ShutdownAndClose, UNCHANGED <<inFlight, fromThread>>,
             Set(t, [Last(frames[t]) EXCEPT !.at = "return"])
      PROVE  ClientInv'
  <2> DEFINE f == [Last(frames[t]) EXCEPT !.at = "return"]
  <2>1. "return" \in FramePoints
    BY DEF FramePoints
  <2>2. f \in FrameRecords /\ f.at = "return" /\ f.redirects = Last(frames[t]).redirects
    BY <1>2, <2>1, FrameTo
  <2>3. Set(t, f)
    BY <1>8
  <2> HIDE DEF f
  <2>4. socket' = NoSocket /\ live' = {} /\ created' \in Nat /\ socket' \in Nat
    BY <1>4, <1>8 DEF ShutdownAndClose, NoSocket
  <2>5. inFlight' = Len(frames[t]) - 1 /\ (inFlight' > 0 => fromThread' = t)
    BY <1>2, <1>8
  <2>6. /\ Stacks' /\ frames' \in [Threads -> Seq(FrameRecords)]
        /\ holder' \in Threads \cup {NoThread} /\ holder' # NoThread /\ inFlight' \in Nat
        /\ Last(frames'[t]) = f /\ \A x \in Threads : x # t => frames'[x] = << >>
    BY <1>1, <2>2, <2>3, <2>5, MovesOn
  <2> QED BY <1>1, <1>3, <2>2, <2>4, <2>6, KeepsTheMutex
<1> QED BY <1>6, <1>7, <1>8 DEF OpenSocket

\* A request in flight goes on, over its socket or having closed it.
LEMMA GoesOn ==
  ASSUME ClientInv, NEW t \in Threads, NEW point, In(t, point), point \notin {"open", "return"},
         NEW f \in FrameRecords, f.redirects = Last(frames[t]).redirects,
         f.at \notin {"open", "return"}, Set(t, f), holder' = holder, keepAlive' = keepAlive,
         UNCHANGED locked,
         \/ /\ UNCHANGED sockets
            /\ f.at \in {"write", "read"} =>
                 point \in {"write", "read"} /\ f.stream = Last(frames[t]).stream
         \/ ShutdownAndClose /\ f.at \notin {"write", "read"}
  PROVE  ClientInv'
<1>1. /\ t = holder /\ holder # NoThread /\ Len(frames[t]) \in Nat \ {0}
      /\ inFlight = Len(frames[t]) /\ (inFlight > 0 => fromThread = t)
  BY InASend DEF InFlight, ClientInv, Stacks
<1>2. inFlight' = Len(frames[t]) /\ (inFlight' > 0 => fromThread' = t)
  BY <1>1 DEF locked
<1>3. /\ Stacks' /\ frames' \in [Threads -> Seq(FrameRecords)]
      /\ holder' \in Threads \cup {NoThread} /\ holder' # NoThread /\ inFlight' \in Nat
      /\ Last(frames'[t]) = f /\ \A x \in Threads : x # t => frames'[x] = << >>
  BY <1>1, <1>2, MovesOn
<1>4. /\ keepAlive' \in BOOLEAN /\ shouldClose' \in BOOLEAN /\ stopAsked' \in BOOLEAN
  BY Zenon DEF locked, ClientInv, ClientTypes
<1>5. inFlight' # 0 /\ (stopAsked' => shouldClose')
  BY <1>1, <1>2 DEF locked, ClientInv, Given
<1>6. /\ live = IF socket = NoSocket THEN {} ELSE {socket}
      /\ created \in Nat /\ socket \in Nat
      /\ point \in {"write", "read"} => socket # NoSocket /\ Last(frames[t]).stream = socket
  BY DEF ClientInv, OneSocket, ClientTypes, In
<1>7. /\ live' = IF socket' = NoSocket THEN {} ELSE {socket'}
      /\ created' \in Nat /\ socket' \in Nat
      /\ f.at \in {"write", "read"} => socket' # NoSocket /\ f.stream = socket'
  <2>1. CASE UNCHANGED sockets
    BY <1>6, <2>1 DEF sockets, ShutdownAndClose, NoSocket
  <2>2. CASE ShutdownAndClose /\ f.at \notin {"write", "read"}
    BY <1>6, <2>2 DEF ShutdownAndClose, NoSocket
  <2> QED BY <2>1, <2>2
<1> QED BY <1>3, <1>4, <1>5, <1>7, KeepsTheMutex

\* As GoesOn, for a change of nothing but the point.
LEMMA GoesTo ==
  ASSUME ClientInv, NEW t \in Threads, NEW point, In(t, point), point \notin {"open", "return"},
         NEW to \in FramePoints \ {"open", "return", "write"}, To(t, to), holder' = holder,
         keepAlive' = keepAlive, UNCHANGED locked,
         \/ UNCHANGED sockets /\ (to = "read" => point = "write")
         \/ ShutdownAndClose /\ to # "read"
  PROVE  ClientInv'
<1> DEFINE f == [Last(frames[t]) EXCEPT !.at = to]
<1>1. Last(frames[t]) \in FrameRecords
  BY InASend
<1>2. /\ f \in FrameRecords /\ f.at = to /\ f.redirects = Last(frames[t]).redirects
      /\ f.stream = Last(frames[t]).stream
  BY <1>1, FrameTo
<1>3. Set(t, f)
  BY DEF To
<1> HIDE DEF f
<1> QED BY <1>2, <1>3, GoesOn

\* As GoesOn, for the end of a send.
LEMMA IsDone ==
  ASSUME ClientInv, NEW t \in Threads, NEW point, In(t, point), point \notin {"open", "return"},
         NEW b \in BOOLEAN, Done(t, b), holder' = holder, keepAlive' = keepAlive,
         UNCHANGED locked, UNCHANGED sockets \/ ShutdownAndClose
  PROVE  ClientInv'
<1> DEFINE f == [Last(frames[t]) EXCEPT !.at = "done", !.ret = b]
<1>1. Last(frames[t]) \in FrameRecords
  BY InASend
<1>2. f \in FrameRecords /\ f.at = "done" /\ f.redirects = Last(frames[t]).redirects
  BY <1>1, FrameDone
<1>3. Set(t, f)
  BY DEF Done
<1> HIDE DEF f
<1> QED BY <1>2, <1>3, GoesOn

\* Writing, reading and closing after a response keep the invariant.
LEMMA Talks ==
  ASSUME ClientInv, NEW t \in Threads,
         WriteRequest(t) \/ ReadResponse(t) \/ CloseAfterResponse(t)
  PROVE  ClientInv'
<1>1. /\ holder' = holder /\ keepAlive' = keepAlive /\ UNCHANGED locked
      /\ {"read", "closing", "closing, redirected", "redirected"}
           \subseteq FramePoints \ {"open", "return", "write"}
  BY DEF WriteRequest, ReadResponse, CloseAfterResponse, FramePoints
<1>2. CASE WriteRequest(t)
  <2>1. In(t, "write") /\ UNCHANGED sockets /\ (Done(t, FALSE) \/ To(t, "read"))
    BY <1>2 DEF WriteRequest
  <2> QED BY <1>1, <2>1, GoesTo, IsDone
<1>3. CASE ReadResponse(t)
  <2>1. In(t, "read") /\ UNCHANGED sockets
    BY <1>3 DEF ReadResponse
  <2>2. CASE \E b \in BOOLEAN : Done(t, b)
    BY <1>1, <2>1, <2>2, IsDone
  <2>3. CASE \E to \in {"closing", "closing, redirected", "redirected"} : To(t, to)
    BY <1>1, <2>1, <2>3, GoesTo
  <2> QED BY <1>3, <2>2, <2>3 DEF ReadResponse
<1>4. CASE CloseAfterResponse(t)
  <2>1. CASE In(t, "closing") /\ Done(t, TRUE)
    BY <1>1, <1>4, <2>1, IsDone DEF CloseAfterResponse
  <2>2. CASE In(t, "closing, redirected") /\ To(t, "redirected")
    BY <1>1, <1>4, <2>2, GoesTo DEF CloseAfterResponse
  <2> QED BY <1>4, <2>1, <2>2 DEF CloseAfterResponse
<1> QED BY <1>2, <1>3, <1>4

\* So does a redirect, followed or not,
LEMMA Redirects == ASSUME ClientInv, NEW t \in Threads, Redirect(t) PROVE ClientInv'
<1>1. /\ In(t, "redirected") /\ holder' = holder /\ keepAlive' = keepAlive
      /\ UNCHANGED sockets /\ UNCHANGED locked
  BY DEF Redirect
<1>2. CASE \E b \in BOOLEAN : Done(t, b)
  BY <1>1, <1>2, IsDone
<1>3. ASSUME Last(frames[t]).redirects > 0,
             frames' = [frames EXCEPT ![t] = Append(@, Frame(Last(@).redirects - 1))]
      PROVE  ClientInv'
  <2> DEFINE s == Append(frames[t], Frame(Last(frames[t]).redirects - 1))
  <2>1. /\ t = holder /\ holder # NoThread /\ frames[t] # << >> /\ Stacked(frames[t])
        /\ Last(frames[t]).at = "redirected" /\ Len(frames[t]) \in Nat \ {0}
        /\ inFlight = Len(frames[t]) /\ (inFlight > 0 => fromThread = t)
    BY <1>1, InASend DEF InFlight, ClientInv, Stacks
  <2>2. Stacked(s) /\ s # << >> /\ Len(s) = Len(frames[t]) + 1 /\ Last(s).at = "open"
    BY <1>3, <2>1, StackPush
  <2>3. frames' = [frames EXCEPT ![t] = s]
    BY <1>3
  <2> HIDE DEF s
  <2>4. inFlight' = InFlight(s) /\ inFlight' \in Nat /\ inFlight' # 0
        /\ (inFlight' > 0 => fromThread' = t)
    BY <1>1, <2>1, <2>2 DEF InFlight, locked
  <2>5. /\ Stacks' /\ frames' \in [Threads -> Seq(FrameRecords)]
        /\ holder' \in Threads \cup {NoThread} /\ holder' # NoThread
        /\ frames'[t] = s /\ \A x \in Threads : x # t => frames'[x] = << >>
    BY <1>1, <2>1, <2>2, <2>3, <2>4, Restacked
  <2>6. /\ keepAlive' \in BOOLEAN /\ shouldClose' \in BOOLEAN /\ stopAsked' \in BOOLEAN
        /\ created' \in Nat /\ socket' \in Nat
    BY <1>1, Zenon DEF sockets, locked, ClientInv, ClientTypes
  <2>7. live' = (IF socket' = NoSocket THEN {} ELSE {socket'}) /\ (stopAsked' => shouldClose')
    BY <1>1 DEF sockets, locked, ClientInv, OneSocket, Given, NoSocket
  <2> QED BY <2>2, <2>4, <2>5, <2>6, <2>7, KeepsTheMutex
<1> QED BY <1>2, <1>3 DEF Redirect

\* A send returns, and leaves no socket behind that is to be closed.
LEMMA Returns ==
  ASSUME ClientInv, NEW t \in Threads, NEW point, In(t, point), NEW b \in BOOLEAN, Pop(t, b),
         inFlight' = Len(frames[t]) - 1, inFlight' > 0 => fromThread' = t,
         UNCHANGED <<keepAlive, shouldClose, stopAsked>>,
         created' \in Nat, socket' \in Nat,
         live' = IF socket' = NoSocket THEN {} ELSE {socket'},
         shouldClose \/ ~keepAlive => socket' = NoSocket
  PROVE  ClientInv'
<1> DEFINE below == Front(frames[t])
           u == Append(Front(below), [Last(below) EXCEPT !.at = "done", !.ret = b])
<1>1. /\ t = holder /\ holder # NoThread /\ frames[t] # << >> /\ Stacked(frames[t])
      /\ Len(frames[t]) \in Nat \ {0} /\ (stopAsked => shouldClose)
      /\ frames \in [Threads -> Seq(FrameRecords)]
      /\ \A x \in Threads : x # t => frames[x] = << >>
  BY InASend DEF ClientInv, Given, ClientTypes, Stacks
<1>2. /\ below = << >> <=> Len(frames[t]) = 1
      /\ below # << >> =>
           Stacked(u) /\ u # << >> /\ Len(u) = Len(frames[t]) - 1 /\ Last(u).at = "done"
  BY <1>1, StackPop
<1>3. /\ frames' = [frames EXCEPT ![t] = IF below = << >> THEN << >> ELSE u]
      /\ holder' = IF below = << >> THEN NoThread ELSE holder
  BY DEF Pop
<1> HIDE DEF below, u
<1>4. /\ keepAlive' \in BOOLEAN /\ shouldClose' \in BOOLEAN /\ stopAsked' \in BOOLEAN
  BY Zenon DEF ClientInv, ClientTypes
<1>5. stopAsked' => shouldClose'
  BY <1>1
<1>6. CASE below # << >>
  <2>1. /\ inFlight' = InFlight(u) /\ inFlight' \in Nat /\ inFlight' # 0
    BY <1>1, <1>2, <1>6 DEF InFlight
  <2>2. /\ Stacks' /\ frames' \in [Threads -> Seq(FrameRecords)]
        /\ holder' \in Threads \cup {NoThread} /\ holder' # NoThread
        /\ frames'[t] = u /\ \A x \in Threads : x # t => frames'[x] = << >>
    BY <1>1, <1>2, <1>3, <1>6, <2>1, Restacked
  <2> QED BY <1>2, <1>4, <1>5, <1>6, <2>1, <2>2, KeepsTheMutex
<1>7. CASE below = << >>
  <2>1. frames' = [frames EXCEPT ![t] = << >>] /\ holder' = NoThread
    BY <1>3, <1>7
  <2>1a. inFlight' = 0
    BY <1>1, <1>2, <1>7
  <2>2. \A x \in Threads : frames'[x] = << >>
    BY <1>1, <2>1
  <2>3. frames' \in [Threads -> Seq(FrameRecords)]
    BY <1>1, <2>1
  <2>4. Stacked(<< >>)
    BY DEF Stacked
  <2>5. Stacks'
    <3>1. \A x \in Threads : Stacked(frames'[x])
      BY <2>2, <2>4
    <3>2. \A x \in Threads : frames'[x] # << >> <=> x = holder'
      BY <2>1, <2>2, ClientAssumption
    <3>3. ~(inFlight' > 0)
      BY ONLY <2>1a
    <3> QED BY <2>1, <2>1a, <3>1, <3>2, <3>3 DEF Stacks, Stacked, InFlight
  <2>6. ClientTypes'
    <3>1. inFlight' \in Nat /\ holder' \in Threads \cup {NoThread}
      BY SMTT(30), <2>1, <2>1a
    <3>2. created' \in Nat /\ socket' \in Nat
      OBVIOUS
    <3> QED BY ONLY <1>4, <2>3, <3>1, <3>2, Zenon DEF ClientTypes
  <2>7. OneSocket'
    BY <2>2 DEF OneSocket, In, NoSocket
  <2>8. Given'
    BY <1>1 DEF Given
  <2> QED BY <2>5, <2>6, <2>7, <2>8 DEF ClientInv
<1> QED BY <1>6, <1>7

\* and the return of a send, with a response or without a socket.
LEMMA SendReturns ==
  ASSUME ClientInv, NEW t \in Threads, ReturnUnsent(t) \/ Finish(t) PROVE ClientInv'
<1>1. /\ live = IF socket = NoSocket THEN {} ELSE {socket}
      /\ created \in Nat /\ socket \in Nat /\ (inFlight > 0 => fromThread = holder)
      /\ In(t, "return") => socket = NoSocket
  BY DEF ClientInv, OneSocket, ClientTypes, Stacks
<1>2. CASE ReturnUnsent(t)
  <2>1. /\ In(t, "return") /\ Pop(t, FALSE)
        /\ UNCHANGED <<keepAlive, shouldClose, stopAsked, inFlight, fromThread>>
        /\ UNCHANGED <<socket, created, live>>
    BY <1>2 DEF ReturnUnsent, sockets, locked
  <2>2. inFlight = Len(frames[t]) - 1 /\ t = holder
    BY <2>1, InASend DEF InFlight
  <2>3. /\ inFlight' = Len(frames[t]) - 1 /\ (inFlight' > 0 => fromThread' = t)
        /\ created' \in Nat /\ socket' \in Nat /\ socket' = NoSocket
        /\ live' = IF socket' = NoSocket THEN {} ELSE {socket'}
    BY <1>1, <2>1, <2>2 DEF NoSocket
  <2> QED BY <2>1, <2>3, Returns
<1>3. CASE Finish(t)
  <2>1. /\ In(t, "done") /\ Pop(t, Last(frames[t]).ret) /\ inFlight' = inFlight - 1
        /\ fromThread' = IF inFlight = 1 THEN NoThread ELSE fromThread
        /\ UNCHANGED <<keepAlive, shouldClose, stopAsked>>
        /\ IF shouldClose \/ ~keepAlive \/ ~Last(frames[t]).ret
           THEN ShutdownAndClose ELSE UNCHANGED sockets
    BY <1>3 DEF Finish
  <2>2. inFlight = Len(frames[t]) /\ t = holder /\ Len(frames[t]) \in Nat \ {0}
    BY <2>1, InASend DEF InFlight
  <2>5. Last(frames[t]).ret \in BOOLEAN
    <3>1. Last(frames[t]) \in FrameRecords
      BY <2>1, InASend
    <3>2. \A f \in FrameRecords : f.ret \in BOOLEAN
      BY DEF FrameRecords
    <3> QED BY <3>1, <3>2
  <2>3. inFlight' = Len(frames[t]) - 1 /\ (inFlight' > 0 => fromThread' = t)
    <3>1. inFlight' = inFlight - 1 /\ fromThread' = IF inFlight = 1 THEN NoThread ELSE fromThread
      BY <2>1
    <3>2. inFlight > 0 => fromThread = holder
      BY <1>1
    <3>3. CASE inFlight = 1
      <4>1. inFlight' = 0
        BY <3>1, <3>3
      <4>2. ~(inFlight' > 0)
        BY ONLY <4>1
      <4> QED BY <2>2, <3>1, <4>2
    <3>4. CASE inFlight # 1
      <4>1. inFlight > 0
        BY <2>2
      <4>2. fromThread' = t
        BY <2>2, <3>1, <3>2, <3>4, <4>1
      <4> QED BY <2>2, <3>1, <4>2
    <3> QED BY <3>3, <3>4
  <2>4. /\ created' \in Nat /\ socket' \in Nat
        /\ live' = IF socket' = NoSocket THEN {} ELSE {socket'}
        /\ shouldClose \/ ~keepAlive => socket' = NoSocket
    BY <1>1, <2>1 DEF ShutdownAndClose, sockets, NoSocket
  <2> QED BY <2>1, <2>3, <2>4, <2>5, Returns
<1> QED BY <1>2, <1>3

\* A new client holds no socket and nobody sends.
LEMMA ClientInitInv == ClientInit => ClientInv
<1> SUFFICES ASSUME ClientInit PROVE ClientInv
  OBVIOUS
<1>1. \A t \in Threads : frames[t] = << >>
  BY DEF ClientInit
<1>2. Stacked(<< >>)
  BY DEF Stacked
<1>3. ClientTypes
  <2>1. keepAlive \in BOOLEAN /\ shouldClose \in BOOLEAN /\ stopAsked \in BOOLEAN
    BY Zenon DEF ClientInit
  <2> QED BY <2>1 DEF ClientInit, ClientTypes, NoSocket
<1>4. Stacks
  BY <1>1, <1>2, ClientAssumption DEF ClientInit, Stacks
<1>5. OneSocket
  BY <1>1 DEF ClientInit, OneSocket, In
<1>6. Given
  BY DEF ClientInit, Given
<1> QED BY <1>3, <1>4, <1>5, <1>6 DEF ClientInv

\* No step of a sender, of stop or of the server breaks the invariant.
LEMMA ClientNextInv == ASSUME ClientInv, [ClientNext]_clientVars PROVE ClientInv'
<1>1. CASE Stop
  <2>1. /\ UNCHANGED <<keepAlive, frames, holder, inFlight, fromThread>>
        /\ \/ /\ shouldClose' = TRUE /\ stopAsked' = TRUE /\ inFlight > 0
              /\ UNCHANGED <<socket, created, live>>
           \/ /\ UNCHANGED <<shouldClose, stopAsked>> /\ inFlight = 0
              /\ ShutdownAndClose
    BY <1>1 DEF Stop, locked
  <2>2. ClientTypes'
    <3>1. keepAlive' \in BOOLEAN /\ shouldClose' \in BOOLEAN /\ stopAsked' \in BOOLEAN
      BY <2>1, Zenon DEF ClientInv, ClientTypes
    <3>2. created' \in Nat /\ socket' \in Nat
      BY <2>1 DEF ClientInv, ClientTypes, ShutdownAndClose, NoSocket
    <3> QED BY <2>1, <3>1, <3>2 DEF ClientInv, ClientTypes
  <2>3. Stacks'
    BY <2>1 DEF ClientInv, Stacks, InFlight
  <2>4. OneSocket'
    <3>1. ASSUME inFlight = 0, NEW t \in Threads PROVE ~In(t, "write") /\ ~In(t, "read")
      BY <3>1, InASend DEF InFlight
    <3>2. CASE UNCHANGED <<socket, live>>
      BY <2>1, <3>2 DEF ClientInv, OneSocket, In, NoSocket
    <3>3. CASE inFlight = 0 /\ ShutdownAndClose
      <4>1. \A t \in Threads : ~In(t, "write")' /\ ~In(t, "read")'
        BY <2>1, <3>1, <3>3 DEF In
      <4> QED BY <3>3, <4>1 DEF ClientInv, OneSocket, ShutdownAndClose, NoSocket
    <3> QED BY <2>1, <3>2, <3>3
  <2>5. Given'
    BY <2>1 DEF ClientInv, ClientTypes, Stacks, Given, ShutdownAndClose
  <2> QED BY <2>2, <2>3, <2>4, <2>5 DEF ClientInv
<1>2. CASE HangUp \/ UNCHANGED clientVars
  <2>1. UNCHANGED <<keepAlive, frames, holder, inFlight, fromThread, shouldClose, stopAsked,
                    socket, created, live>>
    BY <1>2 DEF HangUp, clientVars, sockets, locked
  <2> QED BY <2>1 DEF ClientInv, ClientTypes, Stacks, OneSocket, Given, InFlight, Stacked, In,
                      NoSocket
<1>3. ASSUME NEW t \in Threads,
             \/ Send(t) \/ OpenSocket(t) \/ WriteRequest(t) \/ ReadResponse(t)
             \/ CloseAfterResponse(t) \/ Redirect(t) \/ ReturnUnsent(t) \/ Finish(t)
      PROVE  ClientInv'
  BY <1>3, Sends, OpensSocket, Talks, Redirects, SendReturns
<1> QED BY <1>1, <1>2, <1>3 DEF ClientNext

\* The sends in flight are the lowest ones on the holder's stack.
LEMMA InFlightCounted ==
  ASSUME ClientInv
  PROVE  inFlight = Cardinality({f \in Frames :
                                   frames[f[1]][f[2]].at \notin {"open", "return"}})
<1> DEFINE S == {f \in Frames : frames[f[1]][f[2]].at \notin {"open", "return"}}
<1>1. /\ \A t \in Threads : frames[t] # << >> <=> t = holder
      /\ holder \in Threads \cup {NoThread} /\ inFlight \in Nat
      /\ frames \in [Threads -> Seq(FrameRecords)]
  BY DEF ClientInv, Stacks, ClientTypes
<1>2. CASE holder = NoThread
  <2>1. \A t \in Threads : frames[t] = << >>
    BY <1>1, <1>2, ClientAssumption
  <2>2. S = {}
    BY <2>1 DEF Frames
  <2>3. inFlight = 0
    BY <1>2 DEF ClientInv, Stacks
  <2> QED BY <2>2, <2>3, FS_EmptySet
<1>3. ASSUME NEW h \in Threads, h = holder PROVE inFlight = Cardinality(S)
  <2> DEFINE s == frames[h]
  <2>1. /\ s # << >> /\ Stacked(s) /\ inFlight = InFlight(s)
        /\ \A t \in Threads : t # h => frames[t] = << >>
    BY <1>1, <1>3, ClientAssumption DEF ClientInv, Stacks
  <2> HIDE DEF s
  <2>2. /\ Len(s) \in Nat \ {0} /\ s \in Seq(FrameRecords) /\ Last(s) = s[Len(s)]
        /\ Last(s).redirects = MaxRedirects + 1 - Len(s) /\ Last(s) \in FrameRecords
    BY <2>1, StackTop DEF Stacked
  <2>3. Len(s) <= MaxRedirects + 1
    <3>1. Last(s).redirects \in Nat
      BY <2>2 DEF FrameRecords
    <3> QED BY <2>2, <3>1, ClientAssumption
  <2>4. DOMAIN s = 1..Len(s)
    BY <2>2
  <2>5. \A i \in 1..Len(s) : s[i].at \notin {"open", "return"} <=> i <= inFlight
    <3> TAKE i \in 1..Len(s)
    <3>1. CASE i = Len(s)
      BY <2>1, <2>2, <3>1 DEF InFlight
    <3>2. CASE i # Len(s)
      <4>1. i \in 1 .. Len(s) - 1
        BY <2>2, <3>2
      <4>2. s[i].at = "redirected"
        BY <2>1, <4>1 DEF Stacked
      <4>3. inFlight = Len(s) \/ inFlight = Len(s) - 1
        BY <2>1 DEF InFlight
      <4>4. i <= inFlight
        BY <2>2, <4>1, <4>3
      <4> QED BY <4>2, <4>4
    <3> QED BY <3>1, <3>2
  <2>6. inFlight <= Len(s)
    BY <2>1, <2>2 DEF InFlight
  <2>7. S \subseteq {h} \X (1..inFlight)
    <3>1. SUFFICES ASSUME NEW f \in S PROVE f \in {h} \X (1..inFlight)
      OBVIOUS
    <3>2. /\ f \in Threads \X (1..MaxRedirects + 1) /\ f[2] \in DOMAIN frames[f[1]]
          /\ frames[f[1]][f[2]].at \notin {"open", "return"}
      BY DEF Frames
    <3>3. f[1] = h
      BY <2>1, <3>2
    <3>4. f[2] \in 1..Len(s) /\ s[f[2]].at \notin {"open", "return"}
      BY <2>4, <3>2, <3>3 DEF s
    <3>5. f[2] \in 1..inFlight
      BY <1>1, <2>2, <2>5, <3>4
    <3> QED BY <3>2, <3>3, <3>5
  <2>8. {h} \X (1..inFlight) \subseteq S
    <3>1. SUFFICES ASSUME NEW i \in 1..inFlight PROVE <<h, i>> \in S
      OBVIOUS
    <3>2. i \in 1..Len(s) /\ i \in 1..MaxRedirects + 1 /\ i <= inFlight
      BY <1>1, <2>2, <2>3, <2>6, ClientAssumption
    <3>3. s[i].at \notin {"open", "return"} /\ i \in DOMAIN s
      BY <2>4, <2>5, <3>2
    <3> QED BY <1>3, <3>2, <3>3 DEF Frames, s
  <2>9. S = {h} \X (1..inFlight)
    BY <2>7, <2>8
  <2>10. IsFiniteSet({h}) /\ Cardinality({h}) = 1
    BY FS_Singleton
  <2>11. IsFiniteSet(1..inFlight) /\ Cardinality(1..inFlight) = inFlight
    <3>1. 1 \in Int /\ inFlight \in Int
      BY <1>1
    <3>2. /\ IsFiniteSet(1..inFlight)
          /\ Cardinality(1..inFlight) = IF 1 > inFlight THEN 0 ELSE inFlight - 1 + 1
      BY ONLY <3>1, FS_Interval
    <3>3. (IF 1 > inFlight THEN 0 ELSE inFlight - 1 + 1) = inFlight
      BY ONLY <1>1
    <3> QED BY <3>2, <3>3
  <2>12. Cardinality({h} \X (1..inFlight)) = Cardinality({h}) * Cardinality(1..inFlight)
    BY ONLY <2>10, <2>11, FS_Product
  <2>13. Cardinality(S) = Cardinality({h} \X (1..inFlight))
    BY <2>9
  <2> HIDE DEF S
  <2>14. Cardinality(S) = 1 * inFlight
    BY <2>10, <2>11, <2>12, <2>13
  <2>15. 1 * inFlight = inFlight
    BY ONLY <1>1
  <2> QED BY <2>14, <2>15
<1> QED BY <1>1, <1>2, <1>3

\* What HttpClient says of the socket follows.
LEMMA ClientInvOwns == ClientInv => ClientOwnsItsSocket
<1> SUFFICES ASSUME ClientInv PROVE ClientOwnsItsSocket
  OBVIOUS
<1>1. live = {socket} \ {NoSocket}
  BY DEF ClientInv, OneSocket
<1>2. ASSUME NEW t \in Threads, In(t, "write") \/ In(t, "read")
      PROVE  Last(frames[t]).stream \in live
  BY <1>2 DEF ClientInv, OneSocket
<1>3. inFlight > 0 => fromThread = holder
  BY DEF ClientInv, Stacks
<1>4. inFlight = 0 /\ stopAsked => socket = NoSocket
  BY DEF ClientInv, Given
<1>5. Idle => holder = NoThread
  BY DEF Idle, ClientInv, Stacks, ClientTypes
<1>6. Idle /\ ~keepAlive => socket = NoSocket
  BY <1>5 DEF ClientInv, Given
<1> QED BY <1>1, <1>2, <1>3, <1>4, <1>6, InFlightCounted DEF ClientOwnsItsSocket

-----------------------------------------------------------------------------
(***************************************************************************)
(* Each of the machines keeps its invariant, whichever of them steps.      *)
(***************************************************************************)
AllInv == SocketInv /\ DylibInv /\ FileInv /\ QueueInv /\ ClientInv

\* The invariants of the five machines hold together in every reachable state,
\* for any number of addresses, objects, threads, redirects and results.
THEOREM Invariance == Spec => []AllInv
<1>1. Init => AllInv
  BY SocketInitInv, DylibInitInv, FileInitInv, QueueInitInv, ClientInitInv DEF Init, AllInv
<1>2. AllInv /\ [Next]_vars => AllInv'
  <2> SUFFICES ASSUME AllInv, [Next]_vars PROVE AllInv'
    OBVIOUS
  <2>1. [SocketNext]_socketVars
    BY DEF Next, Only, vars
  <2>2. [DylibNext]_dylibVars
    BY DEF Next, Only, vars
  <2>3. [FileNext]_fileVars
    BY DEF Next, Only, vars
  <2>4. [QueueNext]_queueVars
    BY DEF Next, Only, vars
  <2>5. [ClientNext]_clientVars
    BY DEF Next, Only, vars
  <2> QED BY <2>1, <2>2, <2>3, <2>4, <2>5, SocketNextInv, DylibNextInv, FileNextInv,
             QueueNextInv, ClientNextInv DEF AllInv
<1> QED BY <1>1, <1>2, PTL DEF Spec

\* What is opened is closed: create_socket leaves no socket or address list
\* behind but the socket that it returns, and reports an error exactly when it
\* returns none; a library is open as often as objects hold it; and a file is
\* mapped and open only while its object lives.
THEOREM ResourcesAreBalanced == Spec => []ResourcesBalanced
<1>1. AllInv => ResourcesBalanced
  BY SocketInvBalanced, DylibInvBalanced, FileInvBalanced DEF AllInv, ResourcesBalanced
<1> QED BY <1>1, Invariance, PTL

\* Results are handed over once and in order, and nobody sleeps while a result
\* waits that no woken thread is about to take.
THEOREM ResultsHandedOver == Spec => []NoResultIsSleptThrough
<1>1. AllInv => NoResultIsSleptThrough
  BY QueueInvHandsOver DEF AllInv, NoResultIsSleptThrough
<1> QED BY <1>1, Invariance, PTL

\* The client has one socket at most and closes it under nobody; its count of
\* requests in flight is right through redirects, stops and failed connections;
\* and a socket that was to be closed is closed.
THEOREM ClientSocket == Spec => []ClientKeepsItsSocket
<1>1. AllInv => ClientKeepsItsSocket
  BY ClientInvOwns DEF AllInv, ClientKeepsItsSocket
<1> QED BY <1>1, Invariance, PTL

-----------------------------------------------------------------------------
(***************************************************************************)
(* Forms.  Whatever the parser has in its buffer and whatever is still to  *)
(* come are together, in each of its states, the rest of the form from a   *)
(* place that the state tells.                                             *)
(***************************************************************************)

\* A text and then another; the first n symbols of a text, and what is behind them.
Put(u, v) == u \o v
FirstOf(t, n) == SubSeq(t, 1, n)
RestOf(t, n) == SubSeq(t, n + 1, Len(t))

\* What is put together is a text, and it does not matter in which order.
LEMMA PutTogether ==
  ASSUME NEW C
  PROVE  /\ \A u, v \in Seq(C) : /\ Put(u, v) \in Seq(C) /\ Len(u) \in Nat
                                 /\ Len(Put(u, v)) = Len(u) + Len(v)
         /\ \A u, v, w \in Seq(C) : Put(Put(u, v), w) = Put(u, Put(v, w))
<1>1. ASSUME NEW u \in Seq(C), NEW v \in Seq(C)
      PROVE  Put(u, v) \in Seq(C) /\ Len(u) \in Nat /\ Len(Put(u, v)) = Len(u) + Len(v)
  BY Joined DEF Put
<1>2. ASSUME NEW u \in Seq(C), NEW v \in Seq(C), NEW w \in Seq(C)
      PROVE  Put(Put(u, v), w) = Put(u, Put(v, w))
  <2>1. u \in Seq(C) /\ v \in Seq(C) /\ w \in Seq(C)
    OBVIOUS
  <2>2. (u \o v) \o w = u \o (v \o w)
    BY ONLY SMTT(30), <2>1, Associated
  <2> QED BY <2>2, Zenon DEF Put
<1> QED BY <1>1, <1>2

\* A text that begins with x leaves y when x is taken from its first half.
LEMMA TakenAway ==
  ASSUME NEW C, NEW b \in Seq(C), NEW r \in Seq(C), NEW x \in Seq(C), NEW y \in Seq(C),
         Put(b, r) = Put(x, y), Len(x) <= Len(b)
  PROVE  /\ FirstOf(b, Len(x)) = x
         /\ RestOf(b, Len(x)) \in Seq(C) /\ Len(RestOf(b, Len(x))) = Len(b) - Len(x)
         /\ Put(RestOf(b, Len(x)), r) = y
<1> DEFINE m == Len(x)
           n == Len(b)
           h == SubSeq(b, 1, m)
           d == SubSeq(b, m + 1, n)
           t == b \o r
<1>1. m \in Nat /\ n \in Nat /\ m <= n /\ Len(r) \in Nat /\ Len(y) \in Nat
  OBVIOUS
<1>2. /\ t \in Seq(C) /\ Len(t) = n + Len(r)
      /\ (\A k \in 1..n : t[k] = b[k]) /\ \A k \in 1..Len(r) : t[n + k] = r[k]
  <2>1. b \in Seq(C) /\ r \in Seq(C)
    OBVIOUS
  <2> QED BY ONLY <2>1, Joined
<1>3. /\ Len(t) = m + Len(y)
      /\ (\A k \in 1..m : t[k] = x[k]) /\ \A k \in 1..Len(y) : t[m + k] = y[k]
  BY Joined DEF Put
<1>4. h \in Seq(C) /\ Len(h) = m /\ \A k \in 1..m : h[k] = b[k]
  BY <1>1
<1>5. d \in Seq(C) /\ Len(d) = n - m /\ \A k \in 1..n - m : d[k] = b[m + k]
  <2>1. Slice(b, m + 1, n + 1) = d
    <3>1. (n + 1) - 1 = n
      BY <1>1
    <3> QED BY <3>1 DEF Slice
  <2>2. m + 1 \in 1..n + 1 /\ n + 1 \in m + 1..n + 1
    BY <1>1
  <2>3. /\ Slice(b, m + 1, n + 1) \in Seq(C) /\ Len(Slice(b, m + 1, n + 1)) = (n + 1) - (m + 1)
        /\ \A k \in 1..(n + 1) - (m + 1) : Slice(b, m + 1, n + 1)[k] = b[m + 1 + k - 1]
    <3> HIDE DEF m, n, d
    <3> QED BY <2>2, Sliced DEF n
  <2> HIDE DEF m, n, d
  <2>4. (n + 1) - (m + 1) = n - m /\ \A k \in 1..n - m : m + 1 + k - 1 = m + k
    BY <1>1
  <2> QED BY <2>1, <2>3, <2>4
<1> HIDE DEF m, n, h, d, t
<1>6. h = x
  <2>1. \A k \in 1..m : h[k] = x[k]
    <3>1. \A k \in 1..m : k \in 1..n
      BY <1>1
    <3> QED BY <1>2, <1>3, <1>4, <3>1
  <2> QED BY <1>4, <2>1, SameText DEF m
<1>7. d \o r = y
  <2>1. /\ d \o r \in Seq(C) /\ Len(d \o r) = Len(d) + Len(r)
        /\ (\A k \in 1..Len(d) : (d \o r)[k] = d[k])
        /\ \A k \in 1..Len(r) : (d \o r)[Len(d) + k] = r[k]
    <3>1. d \in Seq(C) /\ r \in Seq(C)
      BY <1>5
    <3> QED BY ONLY <3>1, Joined
  <2>2. Len(d \o r) = Len(y)
    <3>1. n + Len(r) = m + Len(y)
      BY ONLY <1>2, <1>3, Zenon
    <3>2. Len(d \o r) = (n - m) + Len(r)
      BY ONLY <1>5, <2>1, Zenon
    <3> QED BY ONLY <1>1, <3>1, <3>2
  <2>3. ASSUME NEW k \in 1..Len(y) PROVE (d \o r)[k] = y[k]
    <3>1. y[k] = t[m + k]
      BY <1>3
    <3>2. CASE k <= n - m
      <4>1. k \in 1..n - m /\ m + k \in 1..n
        BY <1>1, <3>2
      <4> QED BY <1>2, <1>5, <2>1, <3>1, <4>1
    <3>3. CASE k > n - m
      <4> DEFINE l == k - (n - m)
      <4>1. l \in 1..Len(r) /\ n + l = m + k /\ (n - m) + l = k
        BY <1>1, <1>2, <1>3, <3>3
      <4> HIDE DEF l
      <4>2. (d \o r)[k] = r[l]
        BY <1>5, <2>1, <4>1
      <4>3. t[m + k] = r[l]
        BY <1>2, <4>1
      <4> QED BY <3>1, <4>2, <4>3
    <3>4. k <= n - m \/ k > n - m
      <4>1. k \in Int /\ n - m \in Int
        BY <1>1
      <4> QED BY ONLY <4>1
    <3> QED BY <3>2, <3>3, <3>4
  <2> QED BY <2>1, <2>2, <2>3, SameText
<1> QED BY <1>5, <1>6, <1>7 DEF m, n, h, d, FirstOf, RestOf, Put

\* What is taken from the beginning of a text and put behind another moves on.
LEMMA MovedOn ==
  ASSUME NEW C, NEW b \in Seq(C), NEW r \in Seq(C), NEW n \in 0..Len(r)
  PROVE  /\ FirstOf(r, n) \in Seq(C) /\ Len(FirstOf(r, n)) = n
         /\ RestOf(r, n) \in Seq(C) /\ Len(RestOf(r, n)) = Len(r) - n
         /\ Put(FirstOf(r, n), RestOf(r, n)) = r
         /\ Put(b, FirstOf(r, n)) \in Seq(C)
         /\ Put(Put(b, FirstOf(r, n)), RestOf(r, n)) = Put(b, r)
<1> DEFINE h == SubSeq(r, 1, n)
           d == SubSeq(r, n + 1, Len(r))
           m == Len(r)
<1>1. m \in Nat /\ n \in Nat /\ n <= m
  OBVIOUS
<1>2. h \in Seq(C) /\ Len(h) = n /\ \A k \in 1..n : h[k] = r[k]
  BY <1>1
<1>3. d \in Seq(C) /\ Len(d) = m - n /\ \A k \in 1..m - n : d[k] = r[n + k]
  <2>1. Slice(r, n + 1, m + 1) = d
    <3>1. (m + 1) - 1 = m
      BY <1>1
    <3> QED BY <3>1 DEF Slice
  <2>2. n + 1 \in 1..m + 1 /\ m + 1 \in n + 1..m + 1
    BY <1>1
  <2>3. /\ Slice(r, n + 1, m + 1) \in Seq(C) /\ Len(Slice(r, n + 1, m + 1)) = (m + 1) - (n + 1)
        /\ \A k \in 1..(m + 1) - (n + 1) : Slice(r, n + 1, m + 1)[k] = r[n + 1 + k - 1]
    <3> HIDE DEF m, d
    <3> QED BY <2>2, Sliced DEF m
  <2> HIDE DEF m, d
  <2>4. (m + 1) - (n + 1) = m - n /\ \A k \in 1..m - n : n + 1 + k - 1 = n + k
    BY <1>1
  <2> QED BY <2>1, <2>3, <2>4
<1> HIDE DEF h, d
<1>4. h \o d = r
  <2>1. /\ h \o d \in Seq(C) /\ Len(h \o d) = Len(h) + Len(d)
        /\ (\A k \in 1..Len(h) : (h \o d)[k] = h[k])
        /\ \A k \in 1..Len(d) : (h \o d)[Len(h) + k] = d[k]
    BY ONLY <1>2, <1>3, Joined
  <2> HIDE DEF m
  <2>2. Len(h \o d) = m
    <3>1. Len(h \o d) = n + (m - n)
      BY ONLY <1>2, <1>3, <2>1, Zenon
    <3> QED BY ONLY <1>1, <3>1
  <2>3. ASSUME NEW k \in 1..m PROVE (h \o d)[k] = r[k]
    <3>1. k \in 1..n \/ (k - n \in 1..m - n /\ n + (k - n) = k)
      BY <1>1
    <3>2. CASE k \in 1..n
      BY <1>2, <2>1, <3>2
    <3>3. CASE k - n \in 1..m - n /\ n + (k - n) = k
      BY <1>2, <1>3, <2>1, <3>3
    <3> QED BY <3>1, <3>2, <3>3
  <2> QED BY <2>1, <2>2, <2>3, SameText DEF m
<1>5. b \o h \in Seq(C) /\ (b \o h) \o d = b \o (h \o d)
  <2>1. b \in Seq(C)
    OBVIOUS
  <2>2. b \o h \in Seq(C)
    BY ONLY <1>2, <2>1, Joined
  <2>3. (b \o h) \o d = b \o (h \o d)
    <3>1. b \in Seq(C) /\ h \in Seq(C) /\ d \in Seq(C)
      BY <1>2, <1>3
    <3> QED BY ONLY SMTT(30), <3>1, Associated
  <2> QED BY <2>2, <2>3
<1> QED BY <1>2, <1>3, <1>4, <1>5 DEF h, d, m, FirstOf, RestOf, Put

\* Where a text stands in one half of another, it stands in the whole.
LEMMA StandsInWhole ==
  ASSUME NEW C, NEW s \in Seq(C), NEW b \in Seq(C), NEW r \in Seq(C), NEW n \in Nat
  PROVE  /\ StandsAt(s, b, n) => StandsAt(s, b \o r, n)
         /\ n + Len(s) <= Len(b) /\ StandsAt(s, b \o r, n) => StandsAt(s, b, n)
         /\ StandsAt(s, r, n) <=> StandsAt(s, b \o r, Len(b) + n)
<1> DEFINE t == b \o r
<1>1. /\ t \in Seq(C) /\ Len(b) \in Nat /\ Len(r) \in Nat /\ Len(t) = Len(b) + Len(r)
      /\ (\A k \in 1..Len(b) : t[k] = b[k]) /\ \A k \in 1..Len(r) : t[Len(b) + k] = r[k]
  <2>1. b \in Seq(C) /\ r \in Seq(C)
    OBVIOUS
  <2> QED BY ONLY <2>1, Joined
<1>2. Len(s) \in Nat
  OBVIOUS
<1> HIDE DEF t
<1>3. ASSUME n + Len(s) <= Len(b), NEW k \in 1..Len(s) PROVE t[n + k] = b[n + k]
  <2>1. n + k \in 1..Len(b)
    BY <1>1, <1>2, <1>3
  <2> QED BY <1>1, <2>1
<1>4. ASSUME n + Len(s) <= Len(r), NEW k \in 1..Len(s) PROVE t[(Len(b) + n) + k] = r[n + k]
  <2>1. n + k \in 1..Len(r) /\ (Len(b) + n) + k = Len(b) + (n + k)
    BY <1>1, <1>2, <1>4
  <2> QED BY <1>1, <2>1
<1>5. /\ n + Len(s) <= Len(b) => n + Len(s) <= Len(t)
      /\ n + Len(s) <= Len(r) <=> (Len(b) + n) + Len(s) <= Len(t)
  BY <1>1, <1>2
<1>6. /\ StandsAt(s, b, n) => StandsAt(s, t, n)
      /\ n + Len(s) <= Len(b) /\ StandsAt(s, t, n) => StandsAt(s, b, n)
  BY <1>3, <1>5 DEF StandsAt
<1>7. StandsAt(s, r, n) <=> StandsAt(s, t, Len(b) + n)
  BY <1>4, <1>5 DEF StandsAt
<1> QED BY <1>6, <1>7 DEF t

\* A text stands at the beginning of itself and what follows it.
LEMMA StandsFirst ==
  ASSUME NEW C, NEW s \in Seq(C), NEW x \in Seq(C), NEW y \in Seq(C)
  PROVE  /\ StandsAt(s, s \o y, 0)
         /\ StandsAt(s, x \o (s \o y), Len(x))
         /\ StandsAt(s, x \o s, Len(x))
<1>1. s \in Seq(C) /\ x \in Seq(C) /\ y \in Seq(C) /\ s \o y \in Seq(C) /\ Len(x) \in Nat /\ 0 \in Nat
      /\ Len(s) \in Nat /\ Len(x) + 0 = Len(x)
  OBVIOUS
<1>2. StandsAt(s, s, 0)
  BY <1>1 DEF StandsAt
<1>3. StandsAt(s, s \o y, 0)
  BY ONLY <1>1, <1>2, StandsInWhole
<1>4. StandsAt(s, x \o (s \o y), Len(x) + 0)
  BY ONLY <1>1, <1>3, StandsInWhole
<1>5. StandsAt(s, x \o s, Len(x) + 0)
  BY ONLY <1>1, <1>2, StandsInWhole
<1> QED BY <1>1, <1>3, <1>4, <1>5

\* A prefix stands at the beginning.
LEMMA PrefixMeans ==
  ASSUME NEW C, NEW s \in Seq(C), NEW t \in Seq(C)
  PROVE  IsPrefix(s, t) <=> StandsAt(s, t, 0)
<1>1. IsPrefix(s, t) <=> Len(s) <= Len(t) /\ \A k \in 1..Len(s) : t[k] = s[k]
  BY PrefixIs
<1>2. Len(s) \in Nat /\ 0 + Len(s) = Len(s) /\ \A k \in 1..Len(s) : 0 + k = k
  OBVIOUS
<1> QED BY <1>1, <1>2 DEF StandsAt

\* Where a text is found in the buffer; it is not found where it stands nowhere.
LEMMA FindMeans ==
  ASSUME NEW C, buf \in Seq(C), NEW s \in Seq(C), s # << >>
  PROVE  /\ Find(s) \in 0..Len(buf)
         /\ Found(s) => StandsAt(s, buf, Find(s)) /\ \A n \in Nat : StandsAt(s, buf, n) => Find(s) <= n
         /\ ~Found(s) => \A n \in Nat : ~StandsAt(s, buf, n)
<1> DEFINE L == Len(buf)
           m == Len(s)
           Places == {i \in 0..L - m : IsPrefix(s, From(i))}
<1>1. L \in Nat /\ m \in Nat /\ m >= 1
  <2>1. m # 0
    OBVIOUS
  <2> QED BY <2>1
<1>2. ASSUME NEW n \in 0..L - m PROVE IsPrefix(s, From(n)) <=> StandsAt(s, buf, n)
  <2> DEFINE d == From(n)
  <2>1. n \in 0..L /\ n + m <= L
    BY <1>1
  <2>2. d \in Seq(C) /\ Len(d) = L - n /\ \A k \in 1..L - n : d[k] = buf[n + k]
    <3>1. d = Slice(buf, n + 1, L + 1)
      <4>1. (L + 1) - 1 = L
        BY <1>1
      <4> QED BY <4>1 DEF Slice, From
    <3>2. n + 1 \in 1..L + 1 /\ L + 1 \in n + 1..L + 1
      BY <1>1, <2>1
    <3>3. /\ Slice(buf, n + 1, L + 1) \in Seq(C) /\ Len(Slice(buf, n + 1, L + 1)) = (L + 1) - (n + 1)
          /\ \A k \in 1..(L + 1) - (n + 1) : Slice(buf, n + 1, L + 1)[k] = buf[n + 1 + k - 1]
      <4> HIDE DEF L, d
      <4> QED BY <3>2, Sliced DEF L
    <3> HIDE DEF L, d
    <3>4. (L + 1) - (n + 1) = L - n /\ \A k \in 1..L - n : n + 1 + k - 1 = n + k
      BY <1>1, <2>1
    <3> QED BY <3>1, <3>3, <3>4
  <2> HIDE DEF d
  <2>3. IsPrefix(s, d) <=> StandsAt(s, d, 0)
    BY <2>2, PrefixMeans
  <2>4. m <= Len(d) /\ \A k \in 1..m : d[0 + k] = buf[n + k]
    BY <1>1, <2>1, <2>2
  <2>5. StandsAt(s, d, 0) <=> StandsAt(s, buf, n)
    BY <2>1, <2>4 DEF StandsAt
  <2> QED BY <2>3, <2>5 DEF d
<1>3. \A n \in Nat : StandsAt(s, buf, n) => n \in 0..L - m
  BY <1>1 DEF StandsAt
<1>4. \A n : n \in Places <=> n \in Nat /\ StandsAt(s, buf, n)
  <2>1. \A n \in 0..L - m : n \in Nat
    BY <1>1
  <2> QED BY <1>2, <1>3, <2>1
<1>5. Find(s) = IF Places = {} THEN L ELSE CHOOSE i \in Places : \A j \in Places : i <= j
  BY DEF Find
<1>6. \A n \in Places : n \in 0..L /\ n < L
  BY <1>1
<1> HIDE DEF Places
<1>7. CASE Places = {}
  <2>1. Find(s) = L
    BY <1>5, <1>7
  <2>2. ~Found(s)
    <3> HIDE DEF L
    <3> QED BY <1>1, <2>1 DEF Found, L
  <2>3. \A n \in Nat : ~StandsAt(s, buf, n)
    BY <1>4, <1>7
  <2> QED BY <1>1, <2>1, <2>2, <2>3
<1>8. CASE Places # {}
  <2>1. Places \in SUBSET Nat
    BY <1>4
  <2>2. Min(Places) \in Places /\ \A j \in Places : Min(Places) <= j
    BY <1>8, <2>1, LeastNumber
  <2>3. Find(s) \in Places /\ \A j \in Places : Find(s) <= j
    <3>1. Find(s) = CHOOSE i \in Places : \A j \in Places : i <= j
      BY <1>5, <1>8
    <3>2. \E i \in Places : \A j \in Places : i <= j
      BY <2>2
    <3> QED BY ONLY <3>1, <3>2
  <2>4. Find(s) \in 0..L /\ Find(s) < L
    BY <1>6, <2>3
  <2>5. Found(s)
    BY <2>4 DEF Found
  <2> QED BY <1>4, <2>3, <2>4, <2>5
<1> QED BY <1>7, <1>8

\* A text that stands in another only at its end is found in the buffer there, as
\* soon as all of it is in the buffer.
LEMMA FoundThere ==
  ASSUME NEW C, buf \in Seq(C), rest \in Seq(C), NEW s \in Seq(C), s # << >>,
         NEW x \in Seq(C), NEW y \in Seq(C), Put(buf, rest) = Put(x, Put(s, y)),
         \A n \in 0..Len(x) : StandsAt(s, Put(x, s), n) => n = Len(x)
  PROVE  /\ Found(s) <=> Len(x) + Len(s) <= Len(buf)
         /\ Found(s) => Find(s) = Len(x)
         /\ Find(s) \in 0..Len(buf)
<1> DEFINE X == x \o s
           m == Len(s)
           place == Find(s)
           t == buf \o rest
<1>0. /\ t = x \o (s \o y)
      /\ \A n \in 0..Len(x) : StandsAt(s, X, n) => n = Len(x)
  BY Zenon DEF Put
<1>1. X \in Seq(C) /\ Len(X) = Len(x) + m /\ Len(x) \in Nat /\ m \in Nat /\ Len(buf) \in Nat
  <2>1. x \in Seq(C) /\ s \in Seq(C)
    OBVIOUS
  <2>2. x \o s \in Seq(C) /\ Len(x \o s) = Len(x) + Len(s) /\ Len(x) \in Nat /\ Len(s) \in Nat
    BY ONLY <2>1, Joined
  <2>3. Len(buf) \in Nat
    OBVIOUS
  <2> QED BY <2>2, <2>3
<1>2. t = X \o y
  <2>1. x \in Seq(C) /\ s \in Seq(C) /\ y \in Seq(C)
    OBVIOUS
  <2>2. (x \o s) \o y = x \o (s \o y)
    BY ONLY SMTT(30), <2>1, Associated
  <2> QED BY <1>0, <2>2
<1>3. /\ place \in 0..Len(buf)
      /\ Found(s) => StandsAt(s, buf, place) /\ \A k \in Nat : StandsAt(s, buf, k) => place <= k
      /\ ~Found(s) => \A k \in Nat : ~StandsAt(s, buf, k)
  BY FindMeans
<1>4. StandsAt(s, t, Len(x))
  <2>1. StandsAt(s, x \o (s \o y), Len(x))
    BY StandsFirst
  <2> QED BY <1>0, <2>1
<1> HIDE DEF X, place, t
<1>5. ASSUME Len(x) + m <= Len(buf) PROVE StandsAt(s, buf, Len(x))
  <2>1. buf \in Seq(C) /\ rest \in Seq(C) /\ s \in Seq(C)
    OBVIOUS
  <2> QED BY ONLY <1>1, <1>4, <1>5, <2>1, StandsInWhole DEF t, m
<1>6. ASSUME Found(s) PROVE place = Len(x) /\ Len(x) + m <= Len(buf)
  <2>1. StandsAt(s, buf, place) /\ place \in Nat /\ place + m <= Len(buf)
    BY <1>1, <1>3, <1>6 DEF StandsAt
  <2>2. place <= Len(x)
    <3>1. CASE Len(x) + m <= Len(buf)
      BY <1>1, <1>3, <1>5, <1>6, <3>1
    <3>2. CASE ~(Len(x) + m <= Len(buf))
      BY ONLY <1>1, <2>1, <3>2
    <3> QED BY <3>1, <3>2
  <2>3. StandsAt(s, t, place)
    <3>1. buf \in Seq(C) /\ rest \in Seq(C) /\ s \in Seq(C)
      OBVIOUS
    <3> QED BY ONLY <2>1, <3>1, StandsInWhole DEF t
  <2>4. place + Len(s) <= Len(X)
    BY <1>1, <2>1, <2>2 DEF m
  <2>5. StandsAt(s, X, place)
    <3>1. s \in Seq(C) /\ X \in Seq(C) /\ y \in Seq(C)
      BY <1>1
    <3> QED BY ONLY <1>2, <2>1, <2>3, <2>4, <3>1, StandsInWhole
  <2>6. place = Len(x)
    <3>1. place \in 0..Len(x)
      BY <1>1, <2>1, <2>2
    <3> QED BY <1>0, <2>5, <3>1
  <2> QED BY <2>1, <2>6
<1>7. ASSUME Len(x) + m <= Len(buf) PROVE Found(s)
  BY <1>1, <1>3, <1>5, <1>7
<1> QED BY <1>3, <1>6, <1>7 DEF m, place

\* The symbols of forms; of a form, what there is from a part on, from the content
\* of a part on, from a line of its head on, and from behind the boundary before it.
Signs == Bytes \cup Lines
PartsOn(items, i) == PartsFrom(items)[i]
ContentOn(items, i) == items[i].content \o (Crlf \o PartsOn(items, i + 1))
HeadOn(items, i, j) == HeadFrom(items[i].head)[j] \o ContentOn(items, i)
EndOn(items, i) == IF i <= Len(items) THEN Crlf \o HeadOn(items, i, 1) ELSE Dash \o Crlf

\* The boundary lines are texts.
LEMMA FormMarks ==
  /\ Crlf \in Seq(Signs) /\ Len(Crlf) = 2 /\ Crlf[1] = "CR" /\ Crlf[2] = "LF"
  /\ Dash \in Seq(Signs) /\ Len(Dash) = 2 /\ Dash[1] = "-" /\ Dash[2] = "-"
  /\ Boundary \in Seq(Signs) /\ Boundary # << >>
  /\ DashBoundaryCrlf \in Seq(Signs) /\ DashBoundaryCrlf = Dash \o (Boundary \o Crlf)
  /\ Len(DashBoundaryCrlf) = Len(Boundary) + 4
  /\ CrlfDashBoundary \in Seq(Signs) /\ CrlfDashBoundary = Crlf \o (Dash \o Boundary)
  /\ Len(CrlfDashBoundary) = Len(Boundary) + 4
<1> DEFINE S == Seq(Signs)
<1>1. Crlf \in S /\ Len(Crlf) = 2 /\ Crlf[1] = "CR" /\ Crlf[2] = "LF"
  BY MultipartAssumption DEF Crlf, Signs
<1>2. Dash \in S /\ Len(Dash) = 2 /\ Dash[1] = "-" /\ Dash[2] = "-"
  BY MultipartAssumption DEF Dash, Signs
<1>3. Boundary \in S /\ Boundary # << >>
  <2>1. Boundary \in Seq(Bytes) /\ \A i \in 1..Len(Boundary) : Boundary[i] \in Signs
    BY MultipartAssumption DEF Signs
  <2> QED BY <2>1, MultipartAssumption, Retyped
<1>4. \A u, v \in S : u \o v \in S /\ Len(u \o v) = Len(u) + Len(v)
  BY Joined
<1>5. \A u, v, w \in S : (u \o v) \o w = u \o (v \o w)
  BY ONLY SMTT(30), Associated
<1>6. \A u \in S : Len(u) \in Nat
  OBVIOUS
<1> HIDE DEF S
<1>7. /\ DashBoundaryCrlf \in S /\ DashBoundaryCrlf = Dash \o (Boundary \o Crlf)
      /\ Len(DashBoundaryCrlf) = Len(Boundary) + 4
  <2>1. DashBoundaryCrlf = (Dash \o Boundary) \o Crlf
    BY DEF DashBoundaryCrlf
  <2>2. (Dash \o Boundary) \o Crlf = Dash \o (Boundary \o Crlf)
    BY <1>1, <1>2, <1>3, <1>5
  <2>3. /\ Dash \o Boundary \in S /\ Len(Dash \o Boundary) = Len(Dash) + Len(Boundary)
        /\ (Dash \o Boundary) \o Crlf \in S
        /\ Len((Dash \o Boundary) \o Crlf) = Len(Dash \o Boundary) + Len(Crlf)
    BY <1>1, <1>2, <1>3, <1>4
  <2>4. Len(Boundary) \in Nat
    BY <1>3, <1>6
  <2>5. Len(DashBoundaryCrlf) = (2 + Len(Boundary)) + 2
    BY ONLY <1>1, <1>2, <2>1, <2>3, Zenon
  <2> QED BY <2>1, <2>2, <2>3, <2>4, <2>5
<1>8. /\ CrlfDashBoundary \in S /\ CrlfDashBoundary = Crlf \o (Dash \o Boundary)
      /\ Len(CrlfDashBoundary) = Len(Boundary) + 4
  <2>1. CrlfDashBoundary = (Crlf \o Dash) \o Boundary
    BY DEF CrlfDashBoundary
  <2>2. (Crlf \o Dash) \o Boundary = Crlf \o (Dash \o Boundary)
    BY <1>1, <1>2, <1>3, <1>5
  <2>3. /\ Crlf \o Dash \in S /\ Len(Crlf \o Dash) = Len(Crlf) + Len(Dash)
        /\ (Crlf \o Dash) \o Boundary \in S
        /\ Len((Crlf \o Dash) \o Boundary) = Len(Crlf \o Dash) + Len(Boundary)
    BY <1>1, <1>2, <1>3, <1>4
  <2>4. Len(Boundary) \in Nat
    BY <1>3, <1>6
  <2>5. Len(CrlfDashBoundary) = (2 + 2) + Len(Boundary)
    BY ONLY <1>1, <1>2, <2>1, <2>3, Zenon
  <2> QED BY <2>1, <2>2, <2>3, <2>4, <2>5
<1> QED BY <1>1, <1>2, <1>3, <1>7, <1>8 DEF S

\* The head of a part is its lines and an empty one.
LEMMA HeadLaid ==
  ASSUME NEW head \in Seq(Lines)
  PROVE  /\ \A j \in 1..Len(head) + 1 : HeadFrom(head)[j] \in Seq(Signs)
         /\ HeadFrom(head)[Len(head) + 1] = Crlf
         /\ \A j \in 1..Len(head) :
              /\ <<head[j]>> \in Seq(Signs) /\ Len(<<head[j]>>) = 1
              /\ HeadFrom(head)[j] = (<<head[j]>> \o Crlf) \o HeadFrom(head)[j + 1]
<1> DEFINE N == Len(head)
           I == 1..N + 1
           S == Seq(Signs)
           piece == [j \in 1..N |-> <<head[j]>> \o Crlf]
           value(f, j) == IF j > N THEN Crlf ELSE (<<head[j]>> \o Crlf) \o f[j + 1]
           chosen == CHOOSE f : f = [j \in I |-> value(f, j)]
<1>1. N \in Nat
  OBVIOUS
<1>2. ASSUME NEW j \in 1..N PROVE <<head[j]>> \in S /\ Len(<<head[j]>>) = 1
  <2>1. head[j] \in Signs
    BY DEF Signs
  <2> QED BY <2>1
<1>3. Crlf \in S
  BY FormMarks
<1>4. piece \in [1..N -> S]
  <2>1. \A u, v \in S : u \o v \in S
    BY Joined
  <2> HIDE DEF S
  <2> QED BY <1>2, <1>3, <2>1
<1>5. \A j \in 1..N : piece[j] = <<head[j]>> \o Crlf
  OBVIOUS
<1>6. /\ N + 1 \in I /\ N + 1 > N
      /\ \A j \in 1..N : j \in I /\ ~(j > N)
      /\ \A j \in I : j \in 1..N \/ j = N + 1
  BY <1>1
<1>7. HeadFrom(head) = chosen
  BY DEF HeadFrom
<1> HIDE DEF N, piece
<1>8. PICK g \in [1..N + 1 -> S] : Joins(g, piece, Crlf, N)
  BY <1>1, <1>3, <1>4, JoinsAll
<1>9. \A j \in I : g[j] = value(g, j)
  <2>1. g[N + 1] = Crlf /\ \A j \in 1..N : g[j] = (<<head[j]>> \o Crlf) \o g[j + 1]
    BY <1>5, <1>8 DEF Joins
  <2> HIDE DEF I
  <2> QED BY <1>6, <2>1
<1>10. g = [j \in I |-> value(g, j)]
  <2> HIDE DEF value, S
  <2> QED BY <1>8, <1>9
<1>11. chosen = [j \in I |-> value(chosen, j)]
  <2> HIDE DEF value
  <2> QED BY <1>10
<1> HIDE DEF chosen
<1>12. Joins(chosen, piece, Crlf, N)
  <2>1. \A j \in I : chosen[j] = value(chosen, j)
    <3> HIDE DEF value
    <3> QED BY <1>11
  <2> HIDE DEF I
  <2>2. chosen[N + 1] = Crlf /\ \A j \in 1..N : chosen[j] = (<<head[j]>> \o Crlf) \o chosen[j + 1]
    BY <1>6, <2>1
  <2> QED BY <1>5, <2>2 DEF Joins
<1>13. \A j \in 1..N + 1 : chosen[j] \in S
  BY <1>1, <1>3, <1>4, <1>12, JoinsTyped
<1>14. chosen[N + 1] = Crlf /\ \A j \in 1..N : chosen[j] = (<<head[j]>> \o Crlf) \o chosen[j + 1]
  BY <1>5, <1>12 DEF Joins
<1> HIDE DEF S
<1> QED BY <1>2, <1>7, <1>13, <1>14 DEF N, S

\* Putting texts one after the other, as a function that is not looked into.
LEMMA Catenated ==
  ASSUME NEW C
  PROVE  /\ \A u, v \in Seq(C) : u \o v \in Seq(C)
         /\ \A u, v, w \in Seq(C) : (u \o v) \o w = u \o (v \o w)
<1>1. ASSUME NEW u \in Seq(C), NEW v \in Seq(C) PROVE u \o v \in Seq(C)
  BY Joined
<1>2. ASSUME NEW u \in Seq(C), NEW v \in Seq(C), NEW w \in Seq(C) PROVE (u \o v) \o w = u \o (v \o w)
  <2>1. u \in Seq(C) /\ v \in Seq(C) /\ w \in Seq(C)
    OBVIOUS
  <2> QED BY ONLY SMTT(30), <2>1, Associated
<1> QED BY <1>1, <1>2

\* What a form is made of.
LEMMA FormTyped ==
  ASSUME NEW items, Sendable(items)
  PROVE  /\ Len(items) \in Nat /\ Len(items) >= 1 /\ DOMAIN items = 1..Len(items)
         /\ items \in Seq([head : Seq(Lines), content : Seq(Bytes)])
         /\ \A i \in 1..Len(items) : /\ items[i].head \in Seq(Lines)
                                     /\ items[i].content \in Seq(Signs)
<1> DEFINE R == [head : Seq(Lines), content : Seq(Bytes)]
<1>1. items \in Seq(R) /\ items # << >>
  BY DEF Sendable
<1>2. \A r \in R : r.head \in Seq(Lines) /\ r.content \in Seq(Bytes)
  OBVIOUS
<1>3. ASSUME NEW s \in Seq(Bytes) PROVE s \in Seq(Signs)
  <2>1. \A i \in 1..Len(s) : s[i] \in Signs
    BY DEF Signs
  <2> QED BY <2>1, Retyped
<1> HIDE DEF R
<1>4. /\ Len(items) \in Nat /\ Len(items) # 0 /\ DOMAIN items = 1..Len(items)
      /\ \A i \in 1..Len(items) : items[i] \in R
  BY <1>1
<1> QED BY <1>1, <1>2, <1>3, <1>4 DEF R

\* A form is its parts and the last boundary.
LEMMA PartsLaid ==
  ASSUME NEW items, Sendable(items)
  PROVE  /\ \A i \in 1..Len(items) + 1 : PartsOn(items, i) \in Seq(Signs)
         /\ PartsOn(items, Len(items) + 1) = ((Dash \o Boundary) \o Dash) \o Crlf
         /\ \A i \in 1..Len(items) :
              PartsOn(items, i) =
                (((DashBoundaryCrlf \o HeadFrom(items[i].head)[1]) \o items[i].content) \o Crlf)
                  \o PartsOn(items, i + 1)
         /\ \A i \in 1..Len(items) :
              (((DashBoundaryCrlf \o HeadFrom(items[i].head)[1]) \o items[i].content) \o Crlf)
                \in Seq(Signs)
<1> DEFINE N == Len(items)
           I == 1..N + 1
           S == Seq(Signs)
           Mine(i) == ((DashBoundaryCrlf \o HeadFrom(items[i].head)[1]) \o items[i].content) \o Crlf
           end == ((Dash \o Boundary) \o Dash) \o Crlf
           piece == [i \in 1..N |-> Mine(i)]
           value(f, i) == IF i > N THEN end ELSE Mine(i) \o f[i + 1]
           chosen == CHOOSE f : f = [i \in I |-> value(f, i)]
<1>1. N \in Nat /\ \A i \in 1..N : items[i].head \in Seq(Lines) /\ items[i].content \in S
  BY FormTyped
<1>2. \A u, v \in S : u \o v \in S
  BY Joined
<1>3. Crlf \in S /\ Dash \in S /\ Boundary \in S /\ DashBoundaryCrlf \in S
  BY FormMarks
<1>4. ASSUME NEW i \in 1..N PROVE HeadFrom(items[i].head)[1] \in S
  <2>1. items[i].head \in Seq(Lines) /\ 1 \in 1..Len(items[i].head) + 1
    BY <1>1
  <2> QED BY <2>1, HeadLaid
<1>5. end \in S
  <2> HIDE DEF S
  <2> QED BY <1>2, <1>3
<1>6. ASSUME NEW i \in 1..N PROVE Mine(i) \in S
  <2>1. items[i].content \in S
    BY <1>1
  <2> HIDE DEF S
  <2> QED BY <1>2, <1>3, <1>4, <2>1
<1>7. PartsFrom(items) = chosen
  BY DEF PartsFrom
<1> HIDE DEF Mine, end
<1>8. piece \in [1..N -> S] /\ \A i \in 1..N : piece[i] = Mine(i)
  <2> HIDE DEF S
  <2> QED BY <1>6
<1>9. /\ N + 1 \in I /\ N + 1 > N
      /\ \A i \in 1..N : i \in I /\ ~(i > N)
      /\ \A i \in I : i \in 1..N \/ i = N + 1
  BY <1>1
<1> HIDE DEF N, piece
<1>10. PICK g \in [1..N + 1 -> S] : Joins(g, piece, end, N)
  BY <1>1, <1>5, <1>8, JoinsAll
<1>11. \A i \in I : g[i] = value(g, i)
  <2>1. g[N + 1] = end /\ \A i \in 1..N : g[i] = Mine(i) \o g[i + 1]
    BY <1>8, <1>10 DEF Joins
  <2> HIDE DEF I
  <2> QED BY <1>9, <2>1
<1>12. g = [i \in I |-> value(g, i)]
  <2> HIDE DEF value, S
  <2> QED BY <1>10, <1>11
<1>13. chosen = [i \in I |-> value(chosen, i)]
  <2> HIDE DEF value
  <2> QED BY <1>12
<1> HIDE DEF chosen
<1>14. chosen[N + 1] = end /\ \A i \in 1..N : chosen[i] = Mine(i) \o chosen[i + 1]
  <2>1. \A i \in I : chosen[i] = value(chosen, i)
    <3> HIDE DEF value
    <3> QED BY <1>13
  <2> HIDE DEF I
  <2> QED BY <1>9, <2>1
<1>15. \A i \in 1..N + 1 : chosen[i] \in S
  <2>1. Joins(chosen, piece, end, N)
    BY <1>8, <1>14 DEF Joins
  <2> QED BY <1>1, <1>5, <1>8, <2>1, JoinsTyped
<1>16. \A i : PartsOn(items, i) = chosen[i]
  BY <1>7 DEF PartsOn
<1> HIDE DEF S
<1> QED BY <1>6, <1>14, <1>15, <1>16 DEF N, S, Mine, end

\* What there is from a part on, and from a line of its head on.
LEMMA PartLaid ==
  ASSUME NEW items, Sendable(items), NEW i \in 1..Len(items)
  PROVE  /\ ContentOn(items, i) \in Seq(Signs)
         /\ \A j \in 1..Len(items[i].head) + 1 : HeadOn(items, i, j) \in Seq(Signs)
         /\ \A j \in 1..Len(items[i].head) :
              /\ <<items[i].head[j]>> \in Seq(Signs) /\ Len(<<items[i].head[j]>>) = 1
              /\ HeadOn(items, i, j) = <<items[i].head[j]>> \o (Crlf \o HeadOn(items, i, j + 1))
         /\ HeadOn(items, i, Len(items[i].head) + 1) = Crlf \o ContentOn(items, i)
         /\ PartsOn(items, i) = DashBoundaryCrlf \o HeadOn(items, i, 1)
<1> DEFINE S == Seq(Signs)
           J(u, v) == u \o v
           D == DashBoundaryCrlf
           c == items[i].content
           h == items[i].head
           H(j) == HeadFrom(h)[j]
           T == PartsOn(items, i + 1)
           C == ContentOn(items, i)
           On(j) == HeadOn(items, i, j)
<1>1. /\ \A u, v \in S : J(u, v) \in S
      /\ \A u, v, w \in S : J(J(u, v), w) = J(u, J(v, w))
  BY SMTT(30), Catenated
<1>2. Crlf \in S /\ D \in S
  BY FormMarks
<1>3. /\ Len(items) \in Nat /\ i \in Nat /\ i <= Len(items)
      /\ h \in Seq(Lines) /\ c \in S /\ Len(h) \in Nat
  BY FormTyped
<1>4. T \in S
  <2>1. i + 1 \in 1..Len(items) + 1
    BY <1>3
  <2> QED BY <2>1, PartsLaid
<1>5. /\ \A j \in 1..Len(h) + 1 : H(j) \in S
      /\ H(Len(h) + 1) = Crlf
      /\ \A j \in 1..Len(h) : /\ <<h[j]>> \in S /\ Len(<<h[j]>>) = 1
                              /\ H(j) = J(J(<<h[j]>>, Crlf), H(j + 1))
  BY <1>3, HeadLaid
<1>6. PartsOn(items, i) = J(J(J(J(D, H(1)), c), Crlf), T)
  BY PartsLaid
<1>7. C = J(c, J(Crlf, T)) /\ \A j : On(j) = J(H(j), C)
  BY DEF ContentOn, HeadOn
<1>8. 1 \in 1..Len(h) + 1 /\ \A j \in 1..Len(h) : j + 1 \in 1..Len(h) + 1 /\ j \in 1..Len(h) + 1
  BY <1>3
<1> HIDE DEF S, J, D, c, h, H, T, C, On
<1>9. C \in S /\ \A j \in 1..Len(h) + 1 : On(j) \in S
  BY ONLY <1>1, <1>2, <1>3, <1>4, <1>5, <1>7
<1>10. ASSUME NEW j \in 1..Len(h) PROVE On(j) = J(<<h[j]>>, J(Crlf, On(j + 1)))
  <2> DEFINE l == <<h[j]>>
             y == H(j + 1)
  <2>1. l \in S /\ y \in S /\ H(j) = J(J(l, Crlf), y) /\ On(j) = J(H(j), C) /\ On(j + 1) = J(y, C)
    BY ONLY <1>5, <1>7, <1>8, j \in 1..Len(h)
  <2> HIDE DEF l, y
  <2>2. J(J(J(l, Crlf), y), C) = J(J(l, Crlf), J(y, C))
    BY ONLY <1>1, <1>2, <1>9, <2>1
  <2>3. J(J(l, Crlf), J(y, C)) = J(l, J(Crlf, J(y, C)))
    BY ONLY <1>1, <1>2, <1>9, <2>1
  <2>4. On(j) = J(l, J(Crlf, On(j + 1)))
    BY ONLY <2>1, <2>2, <2>3
  <2> QED BY <2>4 DEF l
<1>11. On(Len(h) + 1) = J(Crlf, C)
  BY ONLY <1>5, <1>7
<1>12. PartsOn(items, i) = J(D, On(1))
  <2> DEFINE y == H(1)
  <2>1. y \in S /\ On(1) = J(y, C) /\ PartsOn(items, i) = J(J(J(J(D, y), c), Crlf), T)
    BY ONLY <1>5, <1>6, <1>7, <1>8
  <2> HIDE DEF y
  <2>2. J(D, y) \in S /\ J(J(D, y), c) \in S /\ J(Crlf, T) \in S
    BY ONLY <1>1, <1>2, <1>3, <1>4, <2>1
  <2>3. J(J(J(J(D, y), c), Crlf), T) = J(J(J(D, y), c), J(Crlf, T))
    BY ONLY <1>1, <1>2, <1>4, <2>2
  <2>4. J(J(J(D, y), c), J(Crlf, T)) = J(J(D, y), C)
    BY ONLY <1>1, <1>3, <1>7, <2>2
  <2>5. J(J(D, y), C) = J(D, J(y, C))
    BY ONLY <1>1, <1>2, <1>9, <2>1
  <2> QED BY ONLY <2>1, <2>3, <2>4, <2>5
<1> QED BY <1>5, <1>9, <1>10, <1>11, <1>12 DEF S, J, D, c, h, C, On

\* A part's content ends where the next boundary begins.
LEMMA FormLaid ==
  ASSUME NEW items, Sendable(items), NEW i \in 1..Len(items)
  PROVE  /\ EndOn(items, i) = Crlf \o HeadOn(items, i, 1)
         /\ EndOn(items, i) \in Seq(Signs) /\ EndOn(items, i + 1) \in Seq(Signs)
         /\ ContentOn(items, i) = items[i].content \o (CrlfDashBoundary \o EndOn(items, i + 1))
<1> DEFINE S == Seq(Signs)
           J(u, v) == u \o v
           D == DashBoundaryCrlf
           c == items[i].content
           T == PartsOn(items, i + 1)
           E == EndOn(items, i + 1)
           P == J(Dash, Boundary)
           On(k) == HeadOn(items, k, 1)
<1>1. /\ \A u, v \in S : J(u, v) \in S
      /\ \A u, v, w \in S : J(J(u, v), w) = J(u, J(v, w))
  BY SMTT(30), Catenated
<1>2. /\ Crlf \in S /\ Dash \in S /\ Boundary \in S /\ D = J(P, Crlf) /\ CrlfDashBoundary = J(Crlf, P)
  BY FormMarks DEF DashBoundaryCrlf
<1>3. Len(items) \in Nat /\ i \in Nat /\ i <= Len(items)
  BY FormTyped
<1>4. ASSUME NEW k \in 1..Len(items)
      PROVE  On(k) \in S /\ PartsOn(items, k) = J(D, On(k)) /\ EndOn(items, k) = J(Crlf, On(k))
  <2>1. 1 \in 1..Len(items[k].head) + 1
    <3>1. items[k].head \in Seq(Lines)
      BY FormTyped
    <3> QED BY ONLY <3>1
  <2>2. k <= Len(items)
    BY <1>3
  <2> QED BY <2>1, <2>2, PartLaid DEF EndOn
<1>5. ContentOn(items, i) = J(c, J(Crlf, T))
  BY DEF ContentOn
<1>6. i + 1 \in 1..Len(items) \/ i + 1 = Len(items) + 1
  BY <1>3
<1>7. i + 1 = Len(items) + 1 => T = J(J(P, Dash), Crlf) /\ E = J(Dash, Crlf)
  <2>1. i + 1 = Len(items) + 1 => ~(i + 1 <= Len(items))
    BY <1>3
  <2> QED BY <2>1, PartsLaid DEF EndOn
<1>8. i + 1 \in 1..Len(items) =>
        T = J(J(P, Crlf), On(i + 1)) /\ E = J(Crlf, On(i + 1)) /\ On(i + 1) \in S
  BY <1>2, <1>4
<1> HIDE DEF S, J, D, c, T, E, On
<1>9. P \in S
  BY ONLY <1>1, <1>2
<1> HIDE DEF P
<1>10. E \in S /\ T = J(P, E)
  <2>1. CASE i + 1 = Len(items) + 1
    <3>1. T = J(J(P, Dash), Crlf) /\ E = J(Dash, Crlf)
      BY <1>7, <2>1
    <3>2. J(J(P, Dash), Crlf) = J(P, J(Dash, Crlf)) /\ J(Dash, Crlf) \in S
      BY ONLY <1>1, <1>2, <1>9
    <3> QED BY ONLY <3>1, <3>2
  <2>2. CASE i + 1 \in 1..Len(items)
    <3> DEFINE y == On(i + 1)
    <3>1. T = J(J(P, Crlf), y) /\ E = J(Crlf, y) /\ y \in S
      BY <1>8, <2>2
    <3> HIDE DEF y
    <3>2. J(J(P, Crlf), y) = J(P, J(Crlf, y)) /\ J(Crlf, y) \in S
      BY ONLY <1>1, <1>2, <1>9, <3>1
    <3> QED BY ONLY <3>1, <3>2
  <2> QED BY <1>6, <2>1, <2>2
<1>11. J(Crlf, T) = J(CrlfDashBoundary, E)
  BY ONLY <1>1, <1>2, <1>9, <1>10
<1>12. EndOn(items, i) \in S
  BY ONLY <1>1, <1>2, <1>4, i \in 1..Len(items)
<1> QED BY <1>4, <1>5, <1>10, <1>11, <1>12 DEF S, J, c, E, On

\* The last name among the lines of a head, line by line.
LEMMA NamesOn ==
  ASSUME NEW head \in Seq(Lines)
  PROVE  /\ NameAmong(head, 0) = NoName
         /\ \A j \in 1..Len(head) :
              NameAmong(head, j) = IF head[j] \in Names THEN head[j] ELSE NameAmong(head, j - 1)
         /\ \A j \in 0..Len(head) : NameAmong(head, j) \in Names \cup {NoName}
<1> DEFINE T(n) == {i \in 1..n : head[i] \in Names}
<1>1. \A n : NameAmong(head, n) = IF T(n) = {} THEN NoName ELSE head[Max(T(n))]
  BY DEF NameAmong
<1>2. T(0) = {}
  OBVIOUS
<1>3. ASSUME NEW j \in 1..Len(head)
      PROVE  NameAmong(head, j) = IF head[j] \in Names THEN head[j] ELSE NameAmong(head, j - 1)
  <2>1. CASE head[j] \in Names
    <3>1. j \in Nat /\ T(j) \in SUBSET (1..j) /\ j \in T(j)
      BY <2>1
    <3>2. Max(T(j)) \in 1..j /\ Max(T(j)) >= j
      BY <3>1, GreatestNumber
    <3>3. Max(T(j)) = j /\ T(j) # {}
      BY <3>1, <3>2
    <3> HIDE DEF T
    <3> QED BY <1>1, <2>1, <3>3
  <2>2. CASE head[j] \notin Names
    <3>1. T(j) = T(j - 1)
      <4>1. \A i \in 1..j : i = j \/ i \in 1..j - 1
        OBVIOUS
      <4>2. \A i \in 1..j - 1 : i \in 1..j
        OBVIOUS
      <4> QED BY <2>2, <4>1, <4>2
    <3> HIDE DEF T
    <3> QED BY <1>1, <2>2, <3>1
  <2> QED BY <2>1, <2>2
<1>4. ASSUME NEW j \in 0..Len(head) PROVE NameAmong(head, j) \in Names \cup {NoName}
  <2>1. CASE T(j) = {}
    BY <1>1, <2>1
  <2>2. CASE T(j) # {}
    <3>1. j \in Nat /\ T(j) \in SUBSET (1..j)
      OBVIOUS
    <3>2. Max(T(j)) \in T(j)
      BY <2>2, <3>1, GreatestNumber
    <3>3. head[Max(T(j))] \in Names
      BY <3>2
    <3> HIDE DEF T
    <3> QED BY <1>1, <2>2, <3>3
  <2> QED BY <2>1, <2>2
<1> QED BY <1>1, <1>2, <1>3, <1>4

\* Texts whose first halves are of the same length are the same by halves.
LEMMA SameHalves ==
  ASSUME NEW C, NEW x \in Seq(C), NEW y \in Seq(C), NEW u \in Seq(C), NEW v \in Seq(C),
         x \o y = u \o v, Len(x) = Len(u)
  PROVE  x = u /\ y = v
<1>1. /\ Len(x) \in Nat /\ Len(y) \in Nat /\ Len(x \o y) = Len(x) + Len(y)
      /\ \A k \in 1..Len(x) : (x \o y)[k] = x[k]
      /\ \A k \in 1..Len(y) : (x \o y)[Len(x) + k] = y[k]
  BY ONLY x \in Seq(C), y \in Seq(C), Joined
<1>2. /\ Len(v) \in Nat /\ Len(u \o v) = Len(u) + Len(v)
      /\ \A k \in 1..Len(u) : (u \o v)[k] = u[k]
      /\ \A k \in 1..Len(v) : (u \o v)[Len(u) + k] = v[k]
  BY ONLY u \in Seq(C), v \in Seq(C), Joined
<1>3. Len(y) = Len(v)
  <2>1. Len(x) + Len(y) = Len(x) + Len(v)
    BY ONLY <1>1, <1>2, x \o y = u \o v, Len(x) = Len(u), Zenon
  <2> QED BY ONLY <1>1, <1>2, <2>1
<1>4. \A k \in 1..Len(x) : x[k] = u[k]
  BY ONLY <1>1, <1>2, x \o y = u \o v, Len(x) = Len(u), Zenon
<1>5. \A k \in 1..Len(y) : y[k] = v[k]
  BY ONLY <1>1, <1>2, <1>3, x \o y = u \o v, Len(x) = Len(u), Zenon
<1> QED BY <1>3, <1>4, <1>5, SameText

\* Nothing, and then a text.
LEMMA NothingFirst ==
  ASSUME NEW C, NEW s \in Seq(C)
  PROVE  << >> \in Seq(C) /\ Len(<< >>) = 0 /\ << >> \o s = s
<1>1. << >> \in Seq(C) /\ Len(<< >>) = 0
  OBVIOUS
<1> DEFINE e == << >>
           t == e \o s
<1>2. /\ t \in Seq(C) /\ Len(s) \in Nat /\ Len(t) = Len(e) + Len(s)
      /\ \A k \in 1..Len(s) : t[Len(e) + k] = s[k]
  <2>1. e \in Seq(C)
    OBVIOUS
  <2> HIDE DEF e
  <2> QED BY <2>1, Joined
<1>3. Len(e) = 0
  OBVIOUS
<1> HIDE DEF e, t
<1>4. Len(t) = Len(s) /\ \A k \in 1..Len(s) : t[k] = s[k]
  <2>1. \A k \in 1..Len(s) : Len(e) + k = k
    BY <1>3
  <2> QED BY <1>2, <1>3, <2>1
<1>5. t = s
  BY <1>2, <1>4, SameText
<1> QED BY <1>1, <1>5 DEF e, t

\* A form ends with its parts from any one on.
LEMMA PartsLast ==
  ASSUME NEW items, Sendable(items), NEW i \in 1..Len(items)
  PROVE  \E z \in Seq(Signs) : Serialize(items) = z \o PartsOn(items, i)
<1> DEFINE S == Seq(Signs)
           J(u, v) == u \o v
           N == Len(items)
           P(k) == PartsOn(items, k)
           Mine(k) == J(J(J(DashBoundaryCrlf, HeadFrom(items[k].head)[1]), items[k].content), Crlf)
           T == {n \in Nat : n + 1 <= N => \E z \in S : P(1) = J(z, P(n + 1))}
<1>1. /\ \A u, v \in S : J(u, v) \in S
      /\ \A u, v, w \in S : J(J(u, v), w) = J(u, J(v, w))
  BY SMTT(30), Catenated
<1>2. N \in Nat /\ N >= 1
  BY FormTyped
<1>3. /\ \A k \in 1..N + 1 : P(k) \in S
      /\ \A k \in 1..N : Mine(k) \in S /\ P(k) = J(Mine(k), P(k + 1))
  BY PartsLaid
<1>4. << >> \in S /\ P(1) = J(<< >>, P(1))
  <2>1. 1 \in 1..N + 1
    BY <1>2
  <2>2. P(1) \in S
    BY <1>3, <2>1
  <2> HIDE DEF P
  <2> QED BY <2>2, NothingFirst
<1>5. Serialize(items) = P(1)
  BY DEF Serialize, PartsOn
<1> HIDE DEF S, J, N, P, Mine
<1>6. 0 \in T
  <2>1. \E z \in S : P(1) = J(z, P(0 + 1))
    BY <1>4
  <2> QED BY <2>1
<1>7. ASSUME NEW n \in T PROVE n + 1 \in T
  <2> SUFFICES ASSUME (n + 1) + 1 <= N PROVE \E z \in S : P(1) = J(z, P((n + 1) + 1))
    OBVIOUS
  <2>1. n \in Nat /\ n + 1 \in 1..N /\ (n + 1) + 1 \in 1..N + 1
    BY <1>2
  <2>2. PICK z \in S : P(1) = J(z, P(n + 1))
    BY <2>1
  <2> DEFINE k == n + 1
             u == Mine(k)
             v == P(k + 1)
  <2>3. u \in S /\ v \in S /\ P(k) = J(u, v) /\ P(1) = J(z, P(k))
    BY <1>3, <2>1, <2>2
  <2> HIDE DEF k, u, v
  <2>4. P(1) = J(J(z, u), v) /\ J(z, u) \in S
    BY ONLY <1>1, <2>2, <2>3
  <2>5. v = P((n + 1) + 1)
    BY DEF v, k
  <2> QED BY <2>4, <2>5
<1>8. T = Nat
  <2>1. T \in SUBSET Nat
    OBVIOUS
  <2> HIDE DEF T
  <2> QED BY <1>6, <1>7, <2>1, Induction
<1>9. i - 1 \in T /\ (i - 1) + 1 = i /\ (i - 1) + 1 <= N
  <2>1. i \in Nat /\ i >= 1 /\ i <= N
    BY <1>2 DEF N
  <2> HIDE DEF T
  <2> QED BY <1>2, <1>8, <2>1
<1>10. PICK z \in S : P(1) = J(z, P((i - 1) + 1))
  BY ONLY <1>9
<1>11. Serialize(items) = z \o PartsOn(items, i)
  <2>1. P((i - 1) + 1) = P(i)
    BY <1>9
  <2> QED BY <1>5, <1>10, <2>1 DEF J, P
<1> QED BY <1>11 DEF S

\* What looks like the beginning of a part is one.
LEMMA PartBegins ==
  ASSUME NEW items, Sendable(items), NEW x \in Seq(Signs), NEW y \in Seq(Signs),
         Serialize(items) = x \o (DashBoundaryCrlf \o y)
  PROVE  \E i \in 1..Len(items) : y = HeadOn(items, i, 1)
<1> DEFINE S == Seq(Signs)
           D == DashBoundaryCrlf
           t == Serialize(items)
<1>1. D \in S
  BY FormMarks
<1>2. StandsAt(D, t, Len(x))
  <2>1. StandsAt(D, x \o (D \o y), Len(x))
    BY <1>1, StandsFirst
  <2> QED BY <2>1
<1>3. D \o y \in S /\ Len(x) \in Nat /\ Len(t) = Len(x) + Len(D \o y) /\ Len(D \o y) \in Nat
  <2>1. D \o y \in S
    BY <1>1, Joined
  <2> DEFINE w == D \o y
  <2>2. t = x \o w
    OBVIOUS
  <2> HIDE DEF w, t
  <2>3. w \in S
    BY <2>1 DEF w
  <2>4. Len(t) = Len(x) + Len(w) /\ Len(x) \in Nat /\ Len(w) \in Nat
    BY <2>2, <2>3, Joined
  <2> QED BY <2>1, <2>4 DEF w
<1>4. PICK i \in 1..Len(items) : Len(x) = Len(t) - Len(PartsOn(items, i))
  <2>1. Len(x) \in 0..Len(t)
    <3> HIDE DEF t, D
    <3> QED BY ONLY <1>3
  <2>2. PICK i \in DOMAIN items : Len(x) = Len(t) - Len(PartsFrom(items)[i])
    <3> HIDE DEF D
    <3> QED BY <1>2, <2>1 DEF Sendable, D
  <2>3. DOMAIN items = 1..Len(items)
    BY FormTyped
  <2> QED BY <2>2, <2>3 DEF PartsOn
<1>5. PICK z \in S : t = z \o PartsOn(items, i)
  BY PartsLast
<1>6. /\ PartsOn(items, i) = D \o HeadOn(items, i, 1)
      /\ HeadOn(items, i, 1) \in S
  <2>1. items[i].head \in Seq(Lines)
    BY FormTyped
  <2>2. 1 \in 1..Len(items[i].head) + 1
    BY <2>1
  <2> QED BY <2>2, PartLaid
<1> DEFINE p == PartsOn(items, i)
           w == D \o y
           h == HeadOn(items, i, 1)
<1>7. p \in S
  BY <1>1, <1>6, Joined
<1>8. t = x \o w /\ t = z \o p /\ w \in S /\ p = D \o h /\ h \in S /\ w = D \o y
  BY <1>3, <1>5, <1>6
<1>9. Len(x) = Len(t) - Len(p)
  BY <1>4
<1> HIDE DEF p, w, h, t, D
<1>10. Len(z) = Len(x)
  <2>1. Len(t) = Len(z) + Len(p) /\ Len(z) \in Nat /\ Len(p) \in Nat
    BY ONLY <1>7, <1>8, z \in S, Joined DEF S
  <2>2. Len(x) = (Len(z) + Len(p)) - Len(p)
    BY ONLY <1>9, <2>1, Zenon
  <2> QED BY ONLY <2>1, <2>2
<1>11. w = p
  BY ONLY <1>7, <1>8, <1>10, z \in S, x \in Seq(Signs), SameHalves DEF S
<1>12. y = h
  BY ONLY <1>1, <1>8, <1>11, y \in Seq(Signs), SameHalves, ZenonT(30) DEF S
<1> QED BY <1>12 DEF h

\* The parts s to i - 1 of a form have arrived.
Stored == [name : Names \cup {NoName}, content : Seq(Signs)]
Complete(items, s, n) ==
  /\ files \in Seq(Stored)
  /\ \A k \in 1..n : Good(items[s + k - 1]) /\ files[k] = Parts(items)[s + k - 1]
Delivered(items, s, i) == Len(files) = i - s /\ i - s <= MaxFiles /\ Complete(items, s, i - s)

\* What the parser has and what is to come.
Ahead == Put(buf, rest)

\* The situations of the parser: before the first boundary it has seen, at the
\* beginning of part i, before line j of its head, in its content, behind the
\* boundary that follows it; and why it waits, if it does.
Before(items) ==
  /\ state = 0 /\ files = << >> /\ (~parsing => buf = << >>)
  /\ \E x \in Seq(Signs) : Put(x, Ahead) = PartsOn(items, 1) /\ (~cut => x = << >>)
AtEntry(items, s, i) ==
  /\ state = 1 /\ i <= Len(items) /\ Delivered(items, s, i)
  /\ Ahead = HeadOn(items, i, 1) /\ (~parsing => buf = << >>)
AtLine(items, s, i, j) ==
  /\ state = 2 /\ i <= Len(items) /\ Delivered(items, s, i)
  /\ Ahead = HeadOn(items, i, j)
  /\ \A k \in 1..j - 1 : items[i].head[k] \notin BadLines
  /\ named = NameAmong(items[i].head, j - 1)
  /\ ~parsing => Len(buf) < IF j <= Len(items[i].head) THEN 3 ELSE 2
AtContent(items, s, i) ==
  /\ state = 3 /\ i <= Len(items) /\ Len(files) = i - s + 1 /\ Len(files) <= MaxFiles
  /\ Complete(items, s, i - s) /\ Good(items[i])
  /\ files[Len(files)].name = NameAmong(items[i].head, Len(items[i].head))
  /\ LET come == files[Len(files)].content
     IN  /\ Put(come, Ahead) = ContentOn(items, i) /\ Len(come) <= Len(items[i].content)
         /\ ~parsing => Len(buf) < Len(items[i].content) - Len(come) + Len(CrlfDashBoundary)
AtBoundary(items, s, i) ==
  /\ state = 4 /\ Delivered(items, s, i)
  /\ Ahead = EndOn(items, i) /\ (~parsing => Len(buf) < 2)

\* From part s on, the parser reads, is done with the form, or has refused a part.
Reading(items, s) ==
  /\ ~refused /\ ~valid
  /\ \E i \in s..Len(items) + 1 :
       \/ AtEntry(items, s, i)
       \/ \E j \in 1..Len(items[i].head) + 1 : AtLine(items, s, i, j)
       \/ AtContent(items, s, i)
       \/ AtBoundary(items, s, i)
Over(items, s) ==
  /\ ~refused /\ valid /\ Delivered(items, s, Len(items) + 1)
  /\ \/ state = 4 /\ Ahead \in {<< >>, Crlf, <<"LF">>}
     \/ state = 1 /\ Ahead = << >>
Refusable(items, s, i) ==
  i - s = MaxFiles \/ ~Good(items[i]) \/ ToSet(items[i].head) \cap LongLines # {}
Stopped(items, s) ==
  /\ refused /\ ~valid /\ ~parsing
  /\ \E i \in s..Len(items) : Delivered(items, s, i) /\ Refusable(items, s, i)

FormInv(items) ==
  /\ buf \in Seq(Signs) /\ rest \in Seq(Signs)
  /\ \/ ~refused /\ ~valid /\ Before(items)
     \/ \E s \in 1..Len(items) :
          (~cut => s = 1) /\ (Reading(items, s) \/ Over(items, s) \/ Stopped(items, s))


\* What is true of the parts that have arrived stays so while none is added.
LEMMA PartsKept ==
  ASSUME NEW items, UNCHANGED files
  PROVE  \A s, i : /\ Complete(items, s, i) => Complete(items, s, i)'
                   /\ Delivered(items, s, i) => Delivered(items, s, i)'
<1>1. \A s, i : Complete(items, s, i) => Complete(items, s, i)'
  BY DEF Complete
<1> QED BY <1>1 DEF Delivered

\* The parser's situation does not change when more content comes.
LEMMA FormDeliver ==
  ASSUME NEW items, FormInv(items), Deliver
  PROVE  FormInv(items)'
<1>1. PICK n \in 1..Len(rest) : /\ buf' = buf \o SubSeq(rest, 1, n)
                                /\ rest' = SubSeq(rest, n + 1, Len(rest))
  BY DEF Deliver
<1>2. /\ parsing' = TRUE /\ ~refused /\ UNCHANGED <<state, refused, valid, named, files, cut>>
      /\ buf \in Seq(Signs) /\ rest \in Seq(Signs)
  BY DEF Deliver, FormInv
<1>3. buf' \in Seq(Signs) /\ rest' \in Seq(Signs) /\ Ahead' = Ahead
  <2>1. n \in 0..Len(rest)
    BY <1>2
  <2>2. buf' = Put(buf, FirstOf(rest, n)) /\ rest' = RestOf(rest, n)
    BY <1>1 DEF FirstOf, RestOf, Put
  <2>3. /\ RestOf(rest, n) \in Seq(Signs) /\ Put(buf, FirstOf(rest, n)) \in Seq(Signs)
        /\ Put(Put(buf, FirstOf(rest, n)), RestOf(rest, n)) = Put(buf, rest)
    BY <1>2, <2>1, MovedOn
  <2> QED BY ONLY <2>2, <2>3, Zenon DEF Ahead
<1>4. Before(items) => Before(items)'
  BY <1>2, <1>3 DEF Before
<1>5. \A s, i : Delivered(items, s, i) => Delivered(items, s, i)'
  BY <1>2, PartsKept
<1>6. ASSUME NEW s, Reading(items, s) PROVE Reading(items, s)'
  <2>1. \A i : AtEntry(items, s, i) => AtEntry(items, s, i)'
    BY <1>2, <1>3, <1>5 DEF AtEntry
  <2>2. \A i, j : AtLine(items, s, i, j) => AtLine(items, s, i, j)'
    BY <1>2, <1>3, <1>5 DEF AtLine
  <2>3. \A i : AtContent(items, s, i) => AtContent(items, s, i)'
    BY <1>2, <1>3, PartsKept DEF AtContent
  <2>4. \A i : AtBoundary(items, s, i) => AtBoundary(items, s, i)'
    BY <1>2, <1>3, <1>5 DEF AtBoundary
  <2> QED BY <1>2, <1>6, <2>1, <2>2, <2>3, <2>4 DEF Reading
<1>7. \A s : Over(items, s) => Over(items, s)'
  BY <1>2, <1>3, <1>5 DEF Over
<1>8. \A s : ~Stopped(items, s)
  BY <1>2 DEF Stopped
<1> QED BY <1>2, <1>3, <1>4, <1>6, <1>7, <1>8 DEF FormInv

\* The parser waits, in whatever situation, with an empty buffer.
LEMMA FormEmptied ==
  ASSUME NEW items, Sendable(items), FormInv(items), Emptied
  PROVE  FormInv(items)'
<1>1. /\ parsing /\ parsing' = FALSE /\ buf = << >> /\ UNCHANGED <<buf, rest>>
      /\ UNCHANGED <<state, refused, valid, named, files, cut>>
      /\ buf \in Seq(Signs) /\ rest \in Seq(Signs)
  BY DEF Emptied, Wait, Return, FormInv
<1>2. Ahead' = Ahead /\ Len(buf') = 0 /\ buf' = << >>
  BY <1>1 DEF Ahead
<1>3. Before(items) => Before(items)'
  BY <1>1, <1>2 DEF Before
<1>4. \A s, i : Delivered(items, s, i) => Delivered(items, s, i)'
  BY <1>1, PartsKept
<1>5. ASSUME NEW s \in 1..Len(items), Reading(items, s) PROVE Reading(items, s)'
  <2>1. \A i : AtEntry(items, s, i) => AtEntry(items, s, i)'
    BY <1>1, <1>2, <1>4 DEF AtEntry
  <2>2. \A i, j : AtLine(items, s, i, j) => AtLine(items, s, i, j)'
    BY <1>1, <1>2, <1>4 DEF AtLine
  <2>3. ASSUME NEW i \in s..Len(items) + 1, AtContent(items, s, i)
        PROVE  AtContent(items, s, i)'
    <3> DEFINE come == files[Len(files)].content
    <3>1. i \in 1..Len(items)
      BY <2>3, FormTyped DEF AtContent
    <3>2. Len(items[i].content) \in Nat /\ Len(CrlfDashBoundary) \in Nat /\ Len(CrlfDashBoundary) >= 4
      <4>1. items[i].content \in Seq(Signs)
        BY <3>1, FormTyped
      <4>2. Len(items[i].content) \in Nat
        BY <4>1
      <4>3. Len(CrlfDashBoundary) = Len(Boundary) + 4 /\ Boundary \in Seq(Signs)
        BY FormMarks
      <4>4. Len(Boundary) \in Nat
        BY <4>3
      <4> QED BY ONLY <4>2, <4>3, <4>4
    <3>3. Len(come) \in Nat /\ Len(come) <= Len(items[i].content)
      <4>1. files \in Seq(Stored) /\ Len(files) \in 1..Len(files)
        BY <2>3 DEF AtContent, Complete
      <4>2. files[Len(files)] \in Stored
        BY <4>1
      <4>3. come \in Seq(Signs)
        BY <4>2 DEF Stored
      <4> QED BY <2>3, <4>3 DEF AtContent
    <3>4. 0 < Len(items[i].content) - Len(come) + Len(CrlfDashBoundary)
      <4> HIDE DEF come
      <4> QED BY ONLY <3>2, <3>3
    <3> QED BY <1>1, <1>2, <2>3, <3>4, PartsKept DEF AtContent
  <2>4. \A i : AtBoundary(items, s, i) => AtBoundary(items, s, i)'
    BY <1>1, <1>2, <1>4 DEF AtBoundary
  <2> QED BY <1>1, <1>5, <2>1, <2>2, <2>3, <2>4 DEF Reading
<1>6. \A s : Over(items, s) => Over(items, s)'
  BY <1>1, <1>2, <1>4 DEF Over
<1>7. \A s : ~Stopped(items, s)
  BY <1>1 DEF Stopped
<1> QED BY <1>1, <1>3, <1>5, <1>6, <1>7 DEF FormInv

\* Where a text stands, it is between what is before it and what is behind it.
LEMMA CutAt ==
  ASSUME NEW C, NEW b \in Seq(C), NEW s \in Seq(C), NEW n \in Nat, StandsAt(s, b, n)
  PROVE  /\ FirstOf(b, n) \in Seq(C) /\ Len(FirstOf(b, n)) = n
         /\ RestOf(b, n + Len(s)) \in Seq(C)
         /\ Put(FirstOf(b, n), Put(s, RestOf(b, n + Len(s)))) = b
<1> DEFINE m == n + Len(s)
           u == FirstOf(b, n)
           h == FirstOf(b, m)
           v == RestOf(b, m)
<1>1. n \in 0..Len(b) /\ m \in 0..Len(b) /\ Len(s) \in Nat
  BY DEF StandsAt
<1>2. /\ u \in Seq(C) /\ Len(u) = n /\ h \in Seq(C) /\ Len(h) = m
      /\ v \in Seq(C) /\ Put(h, v) = b
  <2> HIDE DEF m
  <2> QED BY <1>1, MovedOn
<1>3. (\A k \in 1..n : u[k] = b[k]) /\ \A k \in 1..m : h[k] = b[k]
  BY <1>1 DEF FirstOf
<1>4. \A k \in 1..Len(s) : b[n + k] = s[k]
  BY DEF StandsAt
<1> HIDE DEF u, h, v
<1>5. Put(u, s) = h
  <2> DEFINE t == Put(u, s)
  <2>1. /\ t \in Seq(C) /\ Len(t) = Len(u) + Len(s)
        /\ (\A k \in 1..Len(u) : t[k] = u[k]) /\ \A k \in 1..Len(s) : t[Len(u) + k] = s[k]
    <3>1. u \in Seq(C) /\ s \in Seq(C)
      BY <1>2
    <3> QED BY ONLY <3>1, Joined DEF Put
  <2> HIDE DEF t
  <2>2. ASSUME NEW k \in 1..m PROVE t[k] = h[k]
    <3>1. k \in 1..n \/ (k - n \in 1..Len(s) /\ n + (k - n) = k)
      BY <1>1
    <3>2. CASE k \in 1..n
      BY <1>2, <1>3, <2>1, <3>2
    <3>3. CASE k - n \in 1..Len(s) /\ n + (k - n) = k
      <4> DEFINE l == k - n
      <4>1. l \in 1..Len(s) /\ n + l = k
        BY <3>3
      <4> HIDE DEF l
      <4>2. t[k] = s[l] /\ b[k] = s[l]
        BY <1>2, <1>4, <2>1, <4>1
      <4> QED BY <1>3, <4>2
    <3> QED BY <3>1, <3>2, <3>3
  <2>3. Len(t) = Len(h)
    BY <1>2, <2>1
  <2>4. t = h
    BY <1>2, <2>1, <2>2, <2>3, SameText
  <2> QED BY <2>4 DEF t
<1>6. Put(Put(u, s), v) = Put(u, Put(s, v))
  BY <1>2, PutTogether
<1> QED BY <1>2, <1>5, <1>6 DEF u, v

\* The first boundary is found, or passes unseen if a piece ended in it.
LEMMA FormPreamble ==
  ASSUME NEW items, Sendable(items), FormInv(items), Preamble
  PROVE  FormInv(items)'
<1> DEFINE S == Seq(Signs)
           D == DashBoundaryCrlf
<1>1. /\ parsing /\ buf # << >> /\ state = 0 /\ rest' = rest /\ buf \in S /\ rest \in S
  BY DEF Preamble, At, FormInv
<1>2. ~refused /\ ~valid /\ Before(items)
  BY <1>1 DEF FormInv, Reading, AtEntry, AtLine, AtContent, AtBoundary, Over, Stopped
<1>3. PICK x \in S : Put(x, Ahead) = PartsOn(items, 1) /\ (~cut => x = << >>)
  BY <1>2 DEF Before
<1>4. 1 \in 1..Len(items) /\ Len(items) \in Nat
  BY FormTyped
<1>5. D \in S /\ D # << >> /\ Len(D) \in Nat
  <2>1. D \in S /\ Len(D) = Len(Boundary) + 4 /\ Boundary \in S
    BY FormMarks
  <2> HIDE DEF D
  <2>2. Len(D) # 0 /\ Len(D) \in Nat
    BY <2>1
  <2> QED BY <2>1, <2>2
<1> DEFINE H(i) == HeadOn(items, i, 1)
<1>6. H(1) \in S /\ PartsOn(items, 1) = Put(D, H(1))
  <2>1. items[1].head \in Seq(Lines)
    BY <1>4, FormTyped
  <2>2. 1 \in 1..Len(items[1].head) + 1
    BY <2>1
  <2> QED BY <1>4, <2>2, PartLaid DEF Put
<1> HIDE DEF S, D, H
<1>7. ASSUME ~cut
      PROVE  /\ Found(D) <=> Len(D) <= Len(buf)
             /\ Found(D) => Find(D) = 0
             /\ Put(buf, rest) = Put(D, H(1))
  <2> DEFINE e == << >>
  <2>1. e \in S /\ Len(e) = 0 /\ \A t \in S : Put(e, t) = t
    BY NothingFirst, Zenon DEF Put, S
  <2>2. Ahead \in S /\ Put(D, H(1)) \in S
    BY <1>1, <1>5, <1>6, PutTogether DEF Ahead, S
  <2>3. x = e
    BY <1>3, <1>7
  <2> HIDE DEF e
  <2>4. Put(buf, rest) = Put(e, Put(D, H(1))) /\ Put(buf, rest) = Put(D, H(1))
    BY <1>3, <1>6, <2>1, <2>2, <2>3 DEF Ahead
  <2>5. \A n \in 0..Len(e) : StandsAt(D, Put(e, D), n) => n = Len(e)
    BY <2>1
  <2>6. /\ Found(D) <=> Len(e) + Len(D) <= Len(buf)
        /\ Found(D) => Find(D) = Len(e)
    BY <1>1, <1>5, <1>6, <2>1, <2>4, <2>5, FoundThere DEF S
  <2>7. Len(e) + Len(D) = Len(D)
    BY <1>5, <2>1
  <2> QED BY <2>1, <2>4, <2>6, <2>7
<1>8. CASE Found(D)
  <2> DEFINE f == Find(D)
             v == RestOf(buf, f + Len(D))
  <2>1. /\ state' = 1 /\ buf' = v
        /\ UNCHANGED <<parsing, refused, valid, named, files, cut>>
    BY <1>8 DEF Preamble, Go, From, RestOf, D
  <2>2. f \in Nat /\ StandsAt(D, buf, f)
    BY <1>1, <1>5, <1>8, FindMeans DEF S
  <2> DEFINE u == FirstOf(buf, f)
  <2>3. u \in S /\ v \in S /\ Put(u, Put(D, v)) = buf /\ Len(u) = f
    BY <1>1, <1>5, <2>2, CutAt DEF S
  <2> HIDE DEF v, u
  <2>4. \E i \in 1..Len(items) : Put(v, rest) = H(i) /\ (~cut => i = 1)
    <3>1. CASE cut
      <4>1. PartsOn(items, 1) = Put(Put(x, u), Put(D, Put(v, rest)))
        <5> DEFINE r == Put(D, v)
                   w == Put(v, rest)
        <5>1. r \in S /\ w \in S
          BY <1>1, <1>5, <2>3, PutTogether DEF S
        <5>2. Put(buf, rest) = Put(u, Put(r, rest))
          BY <1>1, <2>3, <5>1, PutTogether DEF S
        <5>3. Put(r, rest) = Put(D, w)
          BY <1>1, <1>5, <2>3, PutTogether DEF S
        <5>4. Put(D, w) \in S
          BY <1>5, <5>1, PutTogether DEF S
        <5> HIDE DEF r, w
        <5>5. Put(x, Put(u, Put(D, w))) = Put(Put(x, u), Put(D, w))
          BY <1>3, <2>3, <5>4, PutTogether DEF S
        <5> QED BY <1>3, <5>2, <5>3, <5>5 DEF Ahead, w
      <4>2. Put(x, u) \in S /\ Put(v, rest) \in S
        BY <1>1, <1>3, <2>3, PutTogether DEF S
      <4>3. Serialize(items) = Put(x, u) \o (D \o Put(v, rest))
        BY <4>1, Zenon DEF Serialize, PartsOn, Put
      <4>4. \E i \in 1..Len(items) : Put(v, rest) = HeadOn(items, i, 1)
        BY <4>2, <4>3, PartBegins DEF S, D
      <4> QED BY <3>1, <4>4 DEF H
    <3>2. CASE ~cut
      <4>1. Put(buf, rest) = Put(D, H(1)) /\ Len(D) <= Len(buf) /\ f = 0
        BY <1>7, <1>8, <3>2
      <4>2. Put(RestOf(buf, Len(D)), rest) = H(1)
        BY <1>1, <1>5, <1>6, <4>1, TakenAway DEF S
      <4>3. v = RestOf(buf, Len(D))
        <5>1. f + Len(D) = Len(D)
          BY <1>5, <4>1
        <5> QED BY <5>1 DEF v
      <4> QED BY <1>4, <4>2, <4>3
    <3> QED BY <3>1, <3>2
  <2>5. PICK i \in 1..Len(items) : Put(v, rest) = H(i) /\ (~cut => i = 1)
    BY <2>4
  <2>6. AtEntry(items, i, i)'
    <3>1. files' = << >> /\ parsing' /\ state' = 1 /\ Ahead' = H(i)
      BY <1>1, <1>2, <2>1, <2>5 DEF Before, Ahead
    <3>2. i \in Nat /\ i <= Len(items) /\ i - i = 0 /\ 0 <= MaxFiles
      BY <1>4, MultipartAssumption
    <3>3. Delivered(items, i, i)'
      BY <3>1, <3>2 DEF Delivered, Complete
    <3> QED BY <3>1, <3>2, <3>3 DEF AtEntry, H
  <2>7. Reading(items, i)'
    <3>1. i \in i..Len(items) + 1
      BY <1>4
    <3> QED BY <1>2, <2>1, <2>6, <3>1 DEF Reading
  <2> QED BY <1>1, <2>1, <2>3, <2>5, <2>7 DEF FormInv, S
<1>9. CASE ~Found(D)
  <2>1. /\ buf' = << >> /\ parsing' = FALSE /\ UNCHANGED <<state, refused, valid, named, files>>
        /\ cut' = (cut \/ \E n \in 0..Len(buf) - 1 : IsPrefix(From(n), D))
    BY <1>9 DEF Preamble, Return, D
  <2>2. cut'
    <3> SUFFICES ASSUME ~cut PROVE \E n \in 0..Len(buf) - 1 : IsPrefix(From(n), D)
      BY <2>1
    <3>1. Len(buf) <= Len(D) /\ Put(buf, rest) = Put(D, H(1)) /\ 0 \in 0..Len(buf) - 1
      <4>1. Len(buf) \in Nat /\ Len(buf) # 0
        BY <1>1 DEF S
      <4>2. ~(Len(D) <= Len(buf)) /\ Put(buf, rest) = Put(D, H(1))
        BY <1>7, <1>9
      <4> QED BY <1>5, <4>1, <4>2
    <3>2. From(0) = buf
      BY <1>1 DEF From, S
    <3>3. StandsAt(buf, buf \o rest, 0)
      BY <1>1, StandsFirst DEF S
    <3>4. StandsAt(buf, D \o H(1), 0)
      BY <3>1, <3>3 DEF Put
    <3>5. StandsAt(buf, D, 0)
      <4>1. 0 + Len(buf) <= Len(D) /\ 0 \in Nat
        BY <1>1, <3>1 DEF S
      <4> QED BY <1>1, <1>5, <1>6, <3>4, <4>1, StandsInWhole DEF S
    <3>6. IsPrefix(buf, D)
      BY <1>1, <1>5, <3>5, PrefixMeans DEF S
    <3> QED BY <3>1, <3>2, <3>6
  <2>3. Before(items)'
    <3> DEFINE e == << >>
    <3>1. e \in S /\ Put(e, rest) = rest
      BY <1>1, NothingFirst, Zenon DEF Put, S
    <3>2. Put(x, buf) \in S /\ Put(Put(x, buf), rest) = Put(x, Put(buf, rest))
      BY <1>1, <1>3, PutTogether DEF S
    <3>3. Ahead' = rest
      BY <1>1, <2>1, <3>1 DEF Ahead
    <3>4. Put(Put(x, buf), Ahead') = PartsOn(items, 1)
      BY <1>3, <3>2, <3>3 DEF Ahead
    <3>5. state' = 0 /\ files' = << >> /\ buf' = << >>
      BY <1>1, <1>2, <2>1 DEF Before
    <3> QED BY <2>2, <3>2, <3>4, <3>5 DEF Before, S
  <2>4. buf' \in S /\ rest' \in S
    BY <1>1, <2>1 DEF S
  <2> QED BY <1>2, <2>1, <2>3, <2>4 DEF FormInv, S
<1> QED BY <1>8, <1>9

\* What is found and what is before it are taken from the buffer.
LEMMA FoundAndTaken ==
  ASSUME NEW C, buf \in Seq(C), rest \in Seq(C), NEW s \in Seq(C), s # << >>,
         NEW x \in Seq(C), NEW y \in Seq(C), Put(buf, rest) = Put(x, Put(s, y)),
         \A n \in 0..Len(x) : StandsAt(s, Put(x, s), n) => n = Len(x)
  PROVE  /\ Found(s) <=> Len(x) + Len(s) <= Len(buf)
         /\ Find(s) \in 0..Len(buf)
         /\ Found(s) => /\ Find(s) = Len(x) /\ FirstOf(buf, Len(x)) = x
                        /\ RestOf(buf, Len(x) + Len(s)) \in Seq(C)
                        /\ Put(RestOf(buf, Len(x) + Len(s)), rest) = y
<1>1. /\ Found(s) <=> Len(x) + Len(s) <= Len(buf)
      /\ Found(s) => Find(s) = Len(x)
      /\ Find(s) \in 0..Len(buf)
  BY FoundThere
<1>2. /\ Put(s, y) \in Seq(C) /\ Put(x, s) \in Seq(C) /\ Len(Put(x, s)) = Len(x) + Len(s)
      /\ Put(buf, rest) = Put(Put(x, s), y) /\ Len(x) \in Nat /\ Len(s) \in Nat /\ Len(buf) \in Nat
  BY PutTogether
<1>3. ASSUME Found(s)
      PROVE  /\ FirstOf(buf, Len(x)) = x /\ RestOf(buf, Len(x) + Len(s)) \in Seq(C)
             /\ Put(RestOf(buf, Len(x) + Len(s)), rest) = y
  <2>1. Len(x) <= Len(buf) /\ Len(Put(x, s)) <= Len(buf)
    BY <1>1, <1>2, <1>3
  <2> DEFINE z == Put(s, y)
             w == Put(x, s)
  <2>2. z \in Seq(C) /\ w \in Seq(C) /\ Put(buf, rest) = Put(x, z) /\ Put(buf, rest) = Put(w, y)
    BY <1>2
  <2>3. Len(w) = Len(x) + Len(s) /\ Len(w) <= Len(buf)
    BY <1>2, <2>1
  <2> HIDE DEF z, w
  <2>4. FirstOf(buf, Len(x)) = x
    <3>1. /\ buf \in Seq(C) /\ rest \in Seq(C) /\ x \in Seq(C) /\ z \in Seq(C)
          /\ Put(buf, rest) = Put(x, z) /\ Len(x) <= Len(buf)
      BY <2>1, <2>2
    <3> QED BY ONLY <3>1, TakenAway
  <2>5. RestOf(buf, Len(w)) \in Seq(C) /\ Put(RestOf(buf, Len(w)), rest) = y
    <3>1. /\ buf \in Seq(C) /\ rest \in Seq(C) /\ w \in Seq(C) /\ y \in Seq(C)
          /\ Put(buf, rest) = Put(w, y) /\ Len(w) <= Len(buf)
      BY <2>2, <2>3
    <3> QED BY ONLY <3>1, TakenAway
  <2> QED BY <2>3, <2>4, <2>5
<1> QED BY <1>1, <1>3

\* What is true while part i is read, s being the first one that was seen.
Now(items, s, i) ==
  s \in 1..Len(items) /\ i \in s..Len(items) /\ (~cut => s = 1) /\ ~refused /\ ~valid

\* Before a step of the parser it is in one of the situations.
LEMMA FormSituation ==
  ASSUME NEW items, Sendable(items), FormInv(items), parsing, buf # << >>
  PROVE  /\ state = 1 => \E s, i : Now(items, s, i) /\ AtEntry(items, s, i)
         /\ state = 2 => \E s, i : /\ Now(items, s, i)
                                   /\ \E j \in 1..Len(items[i].head) + 1 : AtLine(items, s, i, j)
         /\ state = 3 => \E s, i : Now(items, s, i) /\ AtContent(items, s, i)
<1>1. Len(items) \in Nat
  BY FormTyped
<1>2. ~Before(items) \/ state = 0
  BY DEF Before
<1>3. ASSUME state # 0, state # 4
      PROVE  \E s \in 1..Len(items) : (~cut => s = 1) /\ Reading(items, s)
  <2>1. \A s : ~Stopped(items, s)
    BY DEF Stopped
  <2>2. \A s : ~Over(items, s)
    <3> SUFFICES ASSUME Ahead = << >> PROVE FALSE
      BY <1>3 DEF Over
    <3>1. Len(Ahead) = Len(buf) + Len(rest) /\ Len(buf) \in Nat /\ Len(rest) \in Nat
      <4>1. buf \in Seq(Signs) /\ rest \in Seq(Signs)
        BY DEF FormInv
      <4> QED BY <4>1, PutTogether DEF Ahead
    <3>2. Len(buf) # 0
      <4>1. buf \in Seq(Signs)
        BY DEF FormInv
      <4> QED BY <4>1
    <3>3. Len(Ahead) = 0
      OBVIOUS
    <3> QED BY ONLY <3>1, <3>2, <3>3
  <2> QED BY <1>2, <1>3, <2>1, <2>2 DEF FormInv
<1>4. ASSUME NEW s \in 1..Len(items), NEW i \in s..Len(items) + 1, i <= Len(items)
      PROVE  i \in s..Len(items)
  BY <1>1, <1>4
<1>5. /\ \A s, i : AtEntry(items, s, i) => state = 1 /\ i <= Len(items)
      /\ \A s, i, j : AtLine(items, s, i, j) => state = 2 /\ i <= Len(items)
      /\ \A s, i : AtContent(items, s, i) => state = 3 /\ i <= Len(items)
      /\ \A s, i : AtBoundary(items, s, i) => state = 4
  BY DEF AtEntry, AtLine, AtContent, AtBoundary
<1>6. ASSUME state # 0, state # 4
      PROVE  \E s, i : /\ Now(items, s, i)
                       /\ \/ AtEntry(items, s, i)
                          \/ \E j \in 1..Len(items[i].head) + 1 : AtLine(items, s, i, j)
                          \/ AtContent(items, s, i)
  <2>1. PICK s \in 1..Len(items) : (~cut => s = 1) /\ Reading(items, s)
    BY <1>3, <1>6
  <2>2. PICK i \in s..Len(items) + 1 :
          /\ \/ AtEntry(items, s, i)
             \/ \E j \in 1..Len(items[i].head) + 1 : AtLine(items, s, i, j)
             \/ AtContent(items, s, i)
             \/ AtBoundary(items, s, i)
    BY <2>1 DEF Reading
  <2>3. i <= Len(items) /\ ~AtBoundary(items, s, i)
    BY <1>5, <1>6, <2>2
  <2>4. Now(items, s, i)
    BY <1>4, <2>1, <2>3 DEF Now, Reading
  <2> QED BY <2>2, <2>3, <2>4
<1> QED BY <1>5, <1>6

\* Of a part that is being read, what its place means.
LEMMA NowMeans ==
  ASSUME NEW items, Sendable(items), NEW s, NEW i, Now(items, s, i)
  PROVE  /\ Len(items) \in Nat /\ s \in 1..Len(items) /\ i \in 1..Len(items)
         /\ i \in s..Len(items) + 1 /\ i \in s..Len(items) /\ i + 1 \in s..Len(items) + 1
         /\ s \in Nat /\ i \in Nat /\ s <= i /\ i <= Len(items)
         /\ items[i].head \in Seq(Lines) /\ items[i].content \in Seq(Signs)
         /\ Len(items[i].head) \in Nat /\ Len(items[i].content) \in Nat
<1>1. Len(items) \in Nat
  BY FormTyped
<1>2. /\ s \in 1..Len(items) /\ i \in 1..Len(items)
      /\ i \in s..Len(items) + 1 /\ i \in s..Len(items) /\ i + 1 \in s..Len(items) + 1
      /\ s \in Nat /\ i \in Nat /\ s <= i /\ i <= Len(items)
  BY <1>1 DEF Now
<1>3. items[i].head \in Seq(Lines) /\ items[i].content \in Seq(Signs)
  BY <1>2, FormTyped
<1> QED BY <1>1, <1>2, <1>3

\* A part begins with the first line of its head.
LEMMA FormNewEntry ==
  ASSUME NEW items, Sendable(items), FormInv(items), NewEntry
  PROVE  FormInv(items)'
<1>1. /\ parsing /\ buf # << >> /\ state = 1 /\ rest' = rest /\ state' = 2 /\ buf' = From(0)
      /\ named' = NoName /\ UNCHANGED <<parsing, refused, valid, files, cut>>
      /\ buf \in Seq(Signs) /\ rest \in Seq(Signs)
  BY DEF NewEntry, At, Go, FormInv
<1>2. buf' = buf
  BY <1>1 DEF From
<1>3. PICK s, i : Now(items, s, i) /\ AtEntry(items, s, i)
  BY <1>1, FormSituation
<1>4. /\ i \in s..Len(items) + 1 /\ i <= Len(items) /\ s \in 1..Len(items)
      /\ items[i].head \in Seq(Lines) /\ 1 \in 1..Len(items[i].head) + 1
  <2>1. Len(items[i].head) \in Nat
    BY <1>3, NowMeans
  <2> QED BY <1>3, <2>1, NowMeans
<1>5. AtLine(items, s, i, 1)'
  <2>1. Delivered(items, s, i)' /\ Ahead' = HeadOn(items, i, 1)
    BY <1>1, <1>2, <1>3, PartsKept DEF AtEntry, Ahead
  <2>2. NameAmong(items[i].head, 1 - 1) = NoName /\ 1..(1 - 1) = {}
    <3>1. 1 - 1 = 0
      OBVIOUS
    <3> QED BY <1>4, <3>1, NamesOn
  <2> QED BY <1>1, <1>4, <2>1, <2>2 DEF AtLine
<1>6. Reading(items, s)'
  BY <1>1, <1>3, <1>4, <1>5 DEF Reading, Now
<1> QED BY <1>1, <1>2, <1>3, <1>4, <1>6 DEF FormInv, Now

\* The end of a header line is found behind the line.
LEMMA LineFound ==
  ASSUME NEW items, Sendable(items), NEW i \in 1..Len(items), NEW j \in 1..Len(items[i].head),
         buf \in Seq(Signs), rest \in Seq(Signs), Ahead = HeadOn(items, i, j)
  PROVE  /\ Found(Crlf) <=> 3 <= Len(buf)
         /\ Find(Crlf) \in 0..Len(buf)
         /\ Found(Crlf) => /\ Find(Crlf) = 1 /\ FirstOf(buf, 1) = <<items[i].head[j]>>
                           /\ RestOf(buf, 3) \in Seq(Signs)
                           /\ Put(RestOf(buf, 3), rest) = HeadOn(items, i, j + 1)
         /\ items[i].head[j] \in Lines
<1> DEFINE l == <<items[i].head[j]>>
           y == HeadOn(items, i, j + 1)
<1>1. items[i].head \in Seq(Lines) /\ items[i].head[j] \in Lines
  <2>1. items[i].head \in Seq(Lines)
    BY FormTyped
  <2> QED BY <2>1
<1>2. l \in Seq(Signs) /\ Len(l) = 1 /\ l[1] = items[i].head[j]
  <2>1. l[1] = items[i].head[j] /\ Len(l) = 1
    OBVIOUS
  <2> QED BY <2>1, PartLaid
<1>3. y \in Seq(Signs)
  <2>1. j + 1 \in 1..Len(items[i].head) + 1
    BY <1>1
  <2> QED BY <2>1, PartLaid
<1>4. Put(buf, rest) = Put(l, Put(Crlf, y))
  <2>1. HeadOn(items, i, j) = l \o (Crlf \o y)
    BY PartLaid
  <2> QED BY <2>1, Zenon DEF Ahead, Put
<1>5. Crlf \in Seq(Signs) /\ Len(Crlf) = 2 /\ Crlf[1] = "CR"
  BY FormMarks
<1>6. Crlf # << >>
  BY DEF Crlf
<1>7. \A n \in 0..Len(l) : StandsAt(Crlf, Put(l, Crlf), n) => n = Len(l)
  <2> SUFFICES ASSUME StandsAt(Crlf, Put(l, Crlf), 0) PROVE FALSE
    <3>1. \A n \in 0..Len(l) : n = 0 \/ n = Len(l)
      BY <1>2
    <3> QED BY <3>1
  <2>1. Put(l, Crlf)[0 + 1] = Crlf[1]
    BY <1>5 DEF StandsAt
  <2>2. \A k \in 1..Len(l) : Put(l, Crlf)[k] = l[k]
    <3>1. l \in Seq(Signs) /\ Crlf \in Seq(Signs)
      BY <1>2, <1>5
    <3> HIDE DEF l
    <3> QED BY ONLY <3>1, Joined DEF Put
  <2>3. 1 \in 1..Len(l) /\ 0 + 1 = 1
    BY <1>2
  <2> HIDE DEF l
  <2>4. items[i].head[j] = "CR"
    BY <1>2, <1>5, <2>1, <2>2, <2>3
  <2> QED BY <1>1, <2>4, MultipartAssumption
<1> HIDE DEF l, y
<1>8. /\ Found(Crlf) <=> Len(l) + Len(Crlf) <= Len(buf)
      /\ Find(Crlf) \in 0..Len(buf)
      /\ Found(Crlf) => /\ Find(Crlf) = Len(l) /\ FirstOf(buf, Len(l)) = l
                        /\ RestOf(buf, Len(l) + Len(Crlf)) \in Seq(Signs)
                        /\ Put(RestOf(buf, Len(l) + Len(Crlf)), rest) = y
  BY <1>2, <1>3, <1>4, <1>5, <1>6, <1>7, FoundAndTaken
<1>9. Len(l) + Len(Crlf) = 3
  BY <1>2, <1>5
<1> QED BY <1>1, <1>2, <1>8, <1>9 DEF l, y

\* The empty line is found at once.
LEMMA EmptyLineFound ==
  ASSUME NEW items, Sendable(items), NEW i \in 1..Len(items),
         buf \in Seq(Signs), rest \in Seq(Signs),
         Ahead = HeadOn(items, i, Len(items[i].head) + 1)
  PROVE  /\ Found(Crlf) <=> 2 <= Len(buf)
         /\ Find(Crlf) \in 0..Len(buf)
         /\ Found(Crlf) => /\ Find(Crlf) = 0 /\ FirstOf(buf, 0) = << >>
                           /\ RestOf(buf, 2) \in Seq(Signs)
                           /\ Put(RestOf(buf, 2), rest) = ContentOn(items, i)
<1> DEFINE l == << >>
           y == ContentOn(items, i)
<1>1. l \in Seq(Signs) /\ Len(l) = 0
  OBVIOUS
<1>2. y \in Seq(Signs)
  BY PartLaid
<1>3. Crlf \in Seq(Signs) /\ Len(Crlf) = 2
  BY FormMarks
<1>4. Crlf # << >>
  BY DEF Crlf
<1>5. Put(buf, rest) = Put(l, Put(Crlf, y))
  <2>1. HeadOn(items, i, Len(items[i].head) + 1) = Put(Crlf, y)
    BY PartLaid, Zenon DEF Put
  <2>2. Put(Crlf, y) \in Seq(Signs)
    BY <1>2, <1>3, PutTogether
  <2> DEFINE t == Put(Crlf, y)
  <2> HIDE DEF t
  <2>3. Put(l, t) = t
    BY <2>2, NothingFirst, Zenon DEF Put, t
  <2> QED BY <2>1, <2>3, Zenon DEF Ahead, t
<1>6. \A n \in 0..Len(l) : StandsAt(Crlf, Put(l, Crlf), n) => n = Len(l)
  BY <1>1
<1> HIDE DEF l, y
<1>7. /\ Found(Crlf) <=> Len(l) + Len(Crlf) <= Len(buf)
      /\ Find(Crlf) \in 0..Len(buf)
      /\ Found(Crlf) => /\ Find(Crlf) = Len(l) /\ FirstOf(buf, Len(l)) = l
                        /\ RestOf(buf, Len(l) + Len(Crlf)) \in Seq(Signs)
                        /\ Put(RestOf(buf, Len(l) + Len(Crlf)), rest) = y
  BY <1>1, <1>2, <1>3, <1>4, <1>5, <1>6, FoundAndTaken
<1>8. Len(l) + Len(Crlf) = 2
  BY <1>1, <1>3
<1> QED BY <1>1, <1>7, <1>8 DEF l, y

\* A part that has a line which is not good, and one that has none.
LEMMA GoodMeans ==
  ASSUME NEW items, Sendable(items), NEW i \in 1..Len(items)
  PROVE  Good(items[i]) <=> \A k \in 1..Len(items[i].head) : items[i].head[k] \notin BadLines
<1>1. items[i].head \in Seq(Lines)
  BY FormTyped
<1> DEFINE h == items[i].head
<1>2. ToSet(h) = {h[k] : k \in 1..Len(h)}
  <2>1. DOMAIN h = 1..Len(h)
    BY <1>1
  <2> HIDE DEF h
  <2> QED BY <2>1 DEF ToSet
<1> HIDE DEF h
<1> QED BY <1>2 DEF Good, h

\* The kinds of lines are apart.
LEMMA LinesApart ==
  /\ \A l \in TakenLines : l \notin BadLines
  /\ \A l \in Lines : l \notin TakenLines => l \in BadLines
  /\ \A l \in LongLines : l \in Lines /\ l # "CR" /\ l # "LF"
<1>1. (HarmlessLines \cup LongLines) \cap BadLines = {}
  BY DEF HarmlessLines, LongLines, BadLines
<1>2. Names \cap BadLines = {} /\ "CR" \notin Lines /\ "LF" \notin Lines
  BY MultipartAssumption
<1> QED BY <1>1, <1>2 DEF Lines, TakenLines

\* A part that is refused ends the reading.
LEMMA FormRefused ==
  ASSUME NEW items, Sendable(items), NEW s, NEW i, Now(items, s, i), Quit, ~valid', UNCHANGED rest,
         buf \in Seq(Signs), rest \in Seq(Signs),
         Delivered(items, s, i), Refusable(items, s, i)
  PROVE  FormInv(items)'
<1>1. /\ refused' /\ ~parsing' /\ ~valid' /\ UNCHANGED <<buf, rest, files, cut>>
      /\ i \in s..Len(items) /\ s \in 1..Len(items) /\ (~cut => s = 1)
  BY DEF Quit, Now
<1>2. Delivered(items, s, i)'
  BY <1>1, PartsKept
<1>3. Stopped(items, s)'
  BY <1>1, <1>2 DEF Stopped, Refusable
<1> QED BY <1>1, <1>3 DEF FormInv

\* What is in the buffer before a line ends, is the line.
LEMMA LineBegun ==
  ASSUME NEW items, Sendable(items), NEW i \in 1..Len(items), NEW j \in 1..Len(items[i].head) + 1,
         buf \in Seq(Signs), rest \in Seq(Signs), Ahead = HeadOn(items, i, j),
         NEW k \in 1..Len(buf), k <= 2
  PROVE  \/ buf[k] \in {"CR", "LF"}
         \/ j \in 1..Len(items[i].head) /\ buf[k] = items[i].head[j]
<1>1. items[i].head \in Seq(Lines) /\ Len(items[i].head) \in Nat
  BY FormTyped
<1>2. Crlf \in Seq(Signs) /\ Len(Crlf) = 2 /\ Crlf[1] = "CR" /\ Crlf[2] = "LF"
  BY FormMarks
<1>3. buf[k] = Ahead[k]
  <2>1. \A n \in 1..Len(buf) : (buf \o rest)[n] = buf[n]
    BY ONLY buf \in Seq(Signs), rest \in Seq(Signs), Joined
  <2> QED BY <2>1 DEF Ahead, Put
<1>4. k = 1 \/ k = 2
  OBVIOUS
<1>5. CASE j = Len(items[i].head) + 1
  <2> DEFINE y == ContentOn(items, i)
  <2>1. y \in Seq(Signs) /\ HeadOn(items, i, j) = Crlf \o y
    BY <1>5, PartLaid, Zenon
  <2> HIDE DEF y
  <2>2. \A n \in 1..Len(Crlf) : (Crlf \o y)[n] = Crlf[n]
    BY ONLY <1>2, <2>1, Joined
  <2>3. k \in 1..Len(Crlf)
    BY <1>2, <1>4
  <2> QED BY <1>2, <1>3, <1>4, <2>1, <2>2, <2>3
<1>6. CASE j # Len(items[i].head) + 1
  <2> DEFINE l == <<items[i].head[j]>>
             y == HeadOn(items, i, j + 1)
             z == Crlf \o y
  <2>1. j \in 1..Len(items[i].head) /\ j + 1 \in 1..Len(items[i].head) + 1
    <3> DEFINE n == Len(items[i].head)
    <3>1. n \in Nat /\ j \in 1..n + 1 /\ j # n + 1
      BY <1>1, <1>6
    <3> HIDE DEF n
    <3>2. j \in 1..n /\ j + 1 \in 1..n + 1
      BY ONLY <3>1
    <3> QED BY <3>2 DEF n
  <2>2. y \in Seq(Signs) /\ HeadOn(items, i, j) = l \o z
    BY <2>1, PartLaid
  <2>3. l \in Seq(Signs) /\ Len(l) = 1 /\ l[1] = items[i].head[j]
    BY <2>1, PartLaid
  <2> HIDE DEF l, y
  <2>4. z \in Seq(Signs) /\ Len(z) = 2 + Len(y) /\ Len(y) \in Nat /\ z[1] = "CR"
    <3>1. 1 \in 1..Len(Crlf)
      BY <1>2
    <3>2. /\ z \in Seq(Signs) /\ Len(z) = Len(Crlf) + Len(y) /\ Len(y) \in Nat
          /\ \A n \in 1..Len(Crlf) : z[n] = Crlf[n]
      BY ONLY <1>2, <2>2, Joined DEF z
    <3> QED BY <1>2, <3>1, <3>2
  <2> HIDE DEF z
  <2>5. /\ \A n \in 1..Len(l) : (l \o z)[n] = l[n]
        /\ \A n \in 1..Len(z) : (l \o z)[Len(l) + n] = z[n]
    <3>1. l \in Seq(Signs) /\ z \in Seq(Signs)
      BY <2>3, <2>4
    <3> QED BY ONLY <3>1, Joined
  <2>6. 1 \in 1..Len(l) /\ 1 \in 1..Len(z)
    BY <2>3, <2>4
  <2>7. HeadOn(items, i, j)[1] = items[i].head[j] /\ HeadOn(items, i, j)[2] = "CR"
    <3>1. Len(l) + 1 = 2
      BY <2>3
    <3> QED BY <2>2, <2>3, <2>4, <2>5, <2>6, <3>1
  <2> QED BY <1>3, <1>4, <2>1, <2>7
<1> QED BY <1>5, <1>6

\* Behind the empty line the part's content begins.
LEMMA FormEntry ==
  ASSUME NEW items, Sendable(items), NEW s, NEW i, Now(items, s, i), parsing,
         buf \in Seq(Signs), rest \in Seq(Signs), buf' \in Seq(Signs), UNCHANGED rest,
         Delivered(items, s, i), Good(items[i]), Len(files) # MaxFiles,
         named = NameAmong(items[i].head, Len(items[i].head)),
         files' = Append(files, [name |-> named, content |-> << >>]),
         state' = 3, Put(buf', rest) = ContentOn(items, i),
         UNCHANGED <<parsing, refused, valid, named, cut>>
  PROVE  FormInv(items)'
<1> DEFINE n == Len(files)
           new == [name |-> named, content |-> << >>]
           g == Append(files, new)
<1>1. /\ files \in Seq(Stored) /\ n = i - s /\ i - s <= MaxFiles /\ MaxFiles \in Nat
      /\ \A k \in 1..i - s : Good(items[s + k - 1]) /\ files[k] = Parts(items)[s + k - 1]
  BY MultipartAssumption DEF Delivered, Complete
<1>2. new \in Stored
  <2>1. named \in Names \cup {NoName}
    <3>1. items[i].head \in Seq(Lines) /\ Len(items[i].head) \in 0..Len(items[i].head)
      BY NowMeans
    <3> QED BY <3>1, NamesOn
  <2>2. << >> \in Seq(Signs)
    OBVIOUS
  <2> QED BY <2>1, <2>2 DEF Stored
<1>3. /\ g \in Seq(Stored) /\ Len(g) = n + 1 /\ g[n + 1] = new /\ n \in Nat
      /\ \A k \in 1..n : g[k] = files[k]
  BY <1>1, <1>2
<1>4. files' = g
  OBVIOUS
<1>5. new.name = named /\ new.content = << >>
  OBVIOUS
<1> HIDE DEF n, new, g
<1>6. Complete(items, s, i - s)'
  <2>1. \A k \in 1..i - s : g[k] = files[k]
    BY <1>1, <1>3
  <2> QED BY <1>1, <1>3, <1>4, <2>1 DEF Complete
<1>7. Len(files') = i - s + 1 /\ Len(files') <= MaxFiles
  <2>1. i - s \in Nat /\ n # MaxFiles
    BY NowMeans DEF n
  <2> QED BY <1>1, <1>3, <1>4, <2>1
<1>8. files'[Len(files')] = new
  BY <1>3, <1>4
<1>9. Put(<< >>, Ahead') = ContentOn(items, i)
  <2> DEFINE c == ContentOn(items, i)
  <2>1. Ahead' = c
    BY DEF Ahead
  <2>2. c \in Seq(Signs)
    BY NowMeans, PartLaid
  <2> HIDE DEF c
  <2>3. Put(<< >>, c) = c
    BY <2>2, NothingFirst, Zenon DEF Put
  <2> QED BY <2>1, <2>3 DEF c
<1>10. /\ i \in s..Len(items) + 1 /\ i <= Len(items) /\ Len(<< >>) <= Len(items[i].content)
       /\ s \in 1..Len(items)
  BY NowMeans
<1>11. AtContent(items, s, i)'
  BY <1>5, <1>6, <1>7, <1>8, <1>9, <1>10 DEF AtContent
<1>12. Reading(items, s)'
  BY <1>10, <1>11 DEF Reading, Now
<1> QED BY <1>10, <1>12 DEF FormInv, Now

\* Header lines are read one by one.
LEMMA FormHeaders ==
  ASSUME NEW items, Sendable(items), FormInv(items), Headers
  PROVE  FormInv(items)'
<1> DEFINE line == SubSeq(buf, 1, Find(Crlf))
           Fine == {<<l>> : l \in TakenLines}
<1>1. /\ parsing /\ buf # << >> /\ state = 2 /\ rest' = rest
      /\ buf \in Seq(Signs) /\ rest \in Seq(Signs)
  BY DEF Headers, At, FormInv
<1>2. PICK s, i : /\ Now(items, s, i)
                  /\ \E j \in 1..Len(items[i].head) + 1 : AtLine(items, s, i, j)
  BY <1>1, FormSituation
<1> DEFINE h == items[i].head
           L == Len(h)
<1>3. PICK j \in 1..L + 1 : AtLine(items, s, i, j)
  BY <1>2
<1>4. /\ i \in 1..Len(items) /\ i <= Len(items) /\ h \in Seq(Lines) /\ L \in Nat
      /\ i \in s..Len(items) + 1 /\ s \in 1..Len(items)
  BY <1>2, NowMeans
<1>5. /\ Delivered(items, s, i) /\ Ahead = HeadOn(items, i, j)
      /\ (\A k \in 1..j - 1 : h[k] \notin BadLines) /\ named = NameAmong(h, j - 1)
  BY <1>3 DEF AtLine
<1>6. line = FirstOf(buf, Find(Crlf))
  BY DEF FirstOf
<1>7. Len(Crlf) = 2
  BY FormMarks
<1> HIDE DEF line, h, L
<1>8. ASSUME j <= L
      PROVE  /\ Found(Crlf) <=> 3 <= Len(buf)
             /\ line # << >>
             /\ Found(Crlf) => /\ line = <<h[j]>> /\ Find(Crlf) = 1
                               /\ RestOf(buf, 3) \in Seq(Signs)
                               /\ Put(RestOf(buf, 3), rest) = HeadOn(items, i, j + 1)
             /\ h[j] \in Lines /\ j \in 1..L
  <2>1. j \in 1..L
    BY <1>4, <1>8
  <2>2. /\ Found(Crlf) <=> 3 <= Len(buf)
        /\ Find(Crlf) \in 0..Len(buf)
        /\ Found(Crlf) => /\ Find(Crlf) = 1 /\ FirstOf(buf, 1) = <<h[j]>>
                          /\ RestOf(buf, 3) \in Seq(Signs)
                          /\ Put(RestOf(buf, 3), rest) = HeadOn(items, i, j + 1)
        /\ h[j] \in Lines
    BY <1>1, <1>4, <1>5, <2>1, LineFound DEF h, L
  <2>3. line # << >>
    <3>1. CASE Found(Crlf)
      <4>1. line = <<h[j]>>
        BY <1>6, <2>2, <3>1
      <4> QED BY <4>1
    <3>2. CASE ~Found(Crlf)
      <4>1. Find(Crlf) = Len(buf) /\ Len(buf) \in 0..Len(buf) /\ Len(buf) # 0
        <5>1. Len(buf) \in Nat /\ Len(buf) # 0
          BY <1>1
        <5> QED BY <2>2, <3>2, <5>1 DEF Found
      <4>2. Len(FirstOf(buf, Len(buf))) = Len(buf)
        BY <1>1, <4>1 DEF FirstOf
      <4>3. Len(line) # 0
        BY <1>6, <4>1, <4>2
      <4> QED BY <4>3
    <3> QED BY <3>1, <3>2
  <2> QED BY <1>6, <2>1, <2>2, <2>3
<1>9. ASSUME j = L + 1
      PROVE  /\ Found(Crlf) <=> 2 <= Len(buf)
             /\ Found(Crlf) => /\ line = << >> /\ Find(Crlf) = 0
                               /\ RestOf(buf, 2) \in Seq(Signs)
                               /\ Put(RestOf(buf, 2), rest) = ContentOn(items, i)
             /\ line = << >> => Found(Crlf)
  <2>1. /\ Found(Crlf) <=> 2 <= Len(buf)
        /\ Find(Crlf) \in 0..Len(buf)
        /\ Found(Crlf) => /\ Find(Crlf) = 0 /\ FirstOf(buf, 0) = << >>
                          /\ RestOf(buf, 2) \in Seq(Signs)
                          /\ Put(RestOf(buf, 2), rest) = ContentOn(items, i)
    BY <1>1, <1>4, <1>5, <1>9, EmptyLineFound DEF h, L
  <2>2. ~Found(Crlf) => line # << >>
    <3> SUFFICES ASSUME ~Found(Crlf) PROVE Len(line) # 0
      OBVIOUS
    <3>1. Find(Crlf) = Len(buf) /\ Len(buf) \in 0..Len(buf) /\ Len(buf) # 0
      <4>1. Len(buf) \in Nat /\ Len(buf) # 0
        BY <1>1
      <4> QED BY <2>1, <4>1 DEF Found
    <3>2. Len(FirstOf(buf, Len(buf))) = Len(buf)
      BY <1>1, <3>1 DEF FirstOf
    <3> QED BY <1>6, <3>1, <3>2
  <2> QED BY <1>6, <2>1, <2>2
<1>10. j <= L \/ j = L + 1
  BY <1>4
<1>11. CASE ~Found(Crlf) /\ Wait(buf)
  <2>1. /\ UNCHANGED <<buf, rest, state, refused, valid, named, files, cut>> /\ parsing' = FALSE
    BY <1>1, <1>11 DEF Wait, Return
  <2>2. Len(buf) < IF j <= L THEN 3 ELSE 2
    <3>1. Len(buf) \in Nat
      BY <1>1
    <3>2. L + 1 > L
      BY <1>4
    <3> QED BY <1>8, <1>9, <1>10, <1>11, <3>1, <3>2
  <2>3. Delivered(items, s, i)' /\ Ahead' = Ahead
    BY <1>5, <2>1, PartsKept DEF Ahead
  <2>4. AtLine(items, s, i, j)'
    BY <1>1, <1>4, <1>5, <2>1, <2>2, <2>3 DEF AtLine, h, L
  <2>5. Reading(items, s)'
    BY <1>2, <1>4, <2>1, <2>4 DEF Reading, Now, L, h
  <2> QED BY <1>1, <1>2, <1>4, <2>1, <2>5 DEF FormInv, Now
<1>12. CASE line = << >> /\ EndOfHeaders
  <2>1. j = L + 1 /\ Found(Crlf)
    BY <1>8, <1>9, <1>10, <1>12
  <2>2. Good(items[i])
    <3>1. \A k \in 1..L : k \in 1..j - 1
      BY <1>4, <2>1
    <3> QED BY <1>4, <1>5, <3>1, GoodMeans DEF h, L
  <2>3. CASE Len(files) = MaxFiles
    <3>1. Quit /\ ~valid'
      BY <1>12, <2>3 DEF EndOfHeaders, Refuse
    <3>2. Refusable(items, s, i)
      BY <1>5, <2>3 DEF Delivered, Refusable
    <3> QED BY <1>1, <1>2, <1>5, <3>1, <3>2, FormRefused
  <2>4. CASE Len(files) # MaxFiles
    <3>1. /\ files' = Append(files, [name |-> named, content |-> << >>])
          /\ state' = 3 /\ buf' = From(Len(Crlf))
          /\ UNCHANGED <<parsing, refused, valid, named, cut>>
      BY <1>12, <2>4 DEF EndOfHeaders, Go
    <3>2. buf' = RestOf(buf, 2)
      BY <1>7, <3>1 DEF From, RestOf
    <3>3. buf' \in Seq(Signs) /\ Put(buf', rest) = ContentOn(items, i)
      BY <1>9, <2>1, <3>2
    <3>4. named = NameAmong(items[i].head, Len(items[i].head))
      <4>1. j - 1 = L
        BY <1>4, <2>1
      <4> QED BY <1>5, <4>1 DEF h, L
    <3> QED BY <1>1, <1>2, <1>5, <2>2, <2>4, <3>1, <3>3, <3>4, FormEntry
  <2> QED BY <2>3, <2>4
<1>13. CASE /\ Found(Crlf) /\ line \in Fine
            /\ named' = IF line[1] \in Names THEN line[1] ELSE named
            /\ Go(2, Len(line) + Len(Crlf))
            /\ UNCHANGED <<valid, files, cut>>
  <2>1. PICK l \in TakenLines : line = <<l>>
    BY <1>13
  <2>2. j <= L /\ line = <<h[j]>>
    <3>1. line # << >>
      BY <2>1
    <3> QED BY <1>8, <1>9, <1>10, <1>13, <3>1
  <2>3. l = h[j] /\ line[1] = h[j] /\ Len(line) = 1 /\ h[j] \notin BadLines
    <3>1. l = h[j]
      BY <2>1, <2>2
    <3> QED BY <2>2, <3>1, LinesApart
  <2>4. /\ state' = 2 /\ UNCHANGED <<parsing, refused, valid, files, cut>>
        /\ buf' = RestOf(buf, 3)
    <3>1. Len(line) + Len(Crlf) = 3
      BY <1>7, <2>3
    <3> QED BY <1>13, <3>1 DEF Go, From, RestOf
  <2>5. buf' \in Seq(Signs) /\ Ahead' = HeadOn(items, i, j + 1)
    BY <1>1, <1>8, <1>13, <2>2, <2>4 DEF Ahead
  <2>6. (j + 1) - 1 = j /\ j + 1 \in 1..L + 1 /\ j \in 1..L
    BY <1>4, <2>2
  <2>7. named' = NameAmong(h, j)
    BY <1>4, <1>5, <1>13, <2>3, <2>6, NamesOn DEF L
  <2>8. \A k \in 1..j : h[k] \notin BadLines
    <3>1. \A k \in 1..j : k = j \/ k \in 1..j - 1
      OBVIOUS
    <3> QED BY <1>5, <2>3, <3>1
  <2>9. Delivered(items, s, i)'
    BY <1>5, <2>4, PartsKept
  <2>10. AtLine(items, s, i, j + 1)'
    BY <1>1, <1>4, <2>4, <2>5, <2>6, <2>7, <2>8, <2>9 DEF AtLine, h, L
  <2>11. Reading(items, s)'
    BY <1>2, <1>4, <2>4, <2>6, <2>10 DEF Reading, Now, L, h
  <2> QED BY <1>1, <1>2, <1>4, <2>4, <2>5, <2>11 DEF FormInv, Now
<1>14. CASE Found(Crlf) /\ line # << >> /\ line \notin Fine /\ Refuse
  <2>1. j <= L /\ line = <<h[j]>> /\ h[j] \in Lines /\ j \in 1..L
    BY <1>8, <1>9, <1>10, <1>14
  <2>2. h[j] \in BadLines
    <3>1. h[j] \notin TakenLines
      BY <1>14, <2>1
    <3> QED BY <2>1, <3>1, LinesApart
  <2>3. Refusable(items, s, i)
    BY <1>4, <2>1, <2>2, GoodMeans DEF h, L, Refusable
  <2>4. Quit /\ ~valid'
    BY <1>14 DEF Refuse
  <2> QED BY <1>1, <1>2, <1>5, <2>3, <2>4, FormRefused
<1>15. CASE TooLong /\ Quit /\ UNCHANGED valid
  <2>1. Find(Crlf) \in 0..Len(buf) /\ Len(buf) \in Nat
    <3>1. Crlf \in Seq(Signs) /\ Crlf # << >>
      BY FormMarks DEF Crlf
    <3> QED BY <1>1, <3>1, FindMeans
  <2>2. line \in Seq(Signs) /\ Len(line) = Find(Crlf) /\ \A k \in 1..Find(Crlf) : line[k] = buf[k]
    <3> DEFINE n == Find(Crlf)
    <3>1. n \in 0..Len(buf)
      BY <2>1
    <3> HIDE DEF n
    <3>2. /\ FirstOf(buf, n) \in Seq(Signs) /\ Len(FirstOf(buf, n)) = n
          /\ \A k \in 1..n : FirstOf(buf, n)[k] = buf[k]
      BY <1>1, <3>1 DEF FirstOf
    <3> QED BY <1>6, <3>2 DEF n
  <2>3. PICK k \in 1..Len(line) : line[k] \in LongLines
    <3>1. ToSet(line) = {line[k] : k \in 1..Len(line)}
      BY <2>2 DEF ToSet
    <3>2. ToSet(line) \cap LongLines # {}
      BY <1>15 DEF TooLong, line
    <3> QED BY <3>1, <3>2
  <2>4. line[k] = buf[k] /\ k \in 1..Len(buf)
    BY <2>1, <2>2, <2>3
  <2>5. k <= 2
    <3>1. CASE Found(Crlf)
      <4>1. Find(Crlf) <= 1
        BY <1>8, <1>9, <1>10, <3>1
      <4> QED BY <2>1, <2>2, <2>3, <4>1
    <3>2. CASE ~Found(Crlf)
      <4>1. Len(buf) < 3
        BY <1>8, <1>9, <1>10, <2>1, <3>2
      <4> QED BY <2>1, <2>4, <4>1
    <3> QED BY <3>1, <3>2
  <2>6. j \in 1..L /\ h[j] \in LongLines
    <3>1. i \in 1..Len(items) /\ j \in 1..Len(items[i].head) + 1 /\ Ahead = HeadOn(items, i, j)
      BY <1>3, <1>4, <1>5 DEF h, L
    <3>2. \/ buf[k] \in {"CR", "LF"}
          \/ j \in 1..Len(items[i].head) /\ buf[k] = items[i].head[j]
      BY ONLY <1>1, <2>4, <2>5, <3>1, Sendable(items), MultipartAssumption, LineBegun
    <3>3. buf[k] \in {"CR", "LF"} \/ (j \in 1..L /\ buf[k] = h[j])
      BY <3>2 DEF h, L
    <3> QED BY <2>3, <2>4, <3>3, LinesApart
  <2>7. Refusable(items, s, i)
    <3>1. h[j] \in ToSet(h)
      BY <1>4, <2>6 DEF ToSet, L
    <3> QED BY <2>6, <3>1 DEF Refusable, h
  <2>8. ~valid'
    BY <1>2, <1>15 DEF Now
  <2> QED BY <1>1, <1>2, <1>5, <1>15, <2>7, <2>8, FormRefused
<1>16. \/ TooLong /\ Quit /\ UNCHANGED valid
       \/ ~Found(Crlf) /\ Wait(buf)
       \/ line = << >> /\ EndOfHeaders
       \/ /\ Found(Crlf) /\ line \in Fine
          /\ named' = IF line[1] \in Names THEN line[1] ELSE named
          /\ Go(2, Len(line) + Len(Crlf))
          /\ UNCHANGED <<valid, files, cut>>
       \/ Found(Crlf) /\ line # << >> /\ line \notin Fine /\ Refuse
  BY Zenon DEF Headers, line
<1> QED BY <1>11, <1>12, <1>13, <1>14, <1>15, <1>16

\* What is received is put behind what the last part has.
LEMMA ReceivedMeans ==
  ASSUME files \in Seq(Stored), files # << >>, NEW n \in 0..Len(buf), buf \in Seq(Signs), Received(n)
  PROVE  /\ files' \in Seq(Stored) /\ Len(files') = Len(files)
         /\ \A k \in 1..Len(files) - 1 : files'[k] = files[k]
         /\ files'[Len(files)].name = files[Len(files)].name
         /\ files'[Len(files)].content = Put(files[Len(files)].content, FirstOf(buf, n))
<1> DEFINE N == Len(files)
           u == FirstOf(buf, n)
           c == Put(files[N].content, u)
           new == [files[N] EXCEPT !.content = c]
           g == [files EXCEPT ![N] = new]
<1>1. N \in Nat /\ N \in 1..N /\ N # 0
  OBVIOUS
<1>2. files[N] \in Stored
  BY <1>1
<1>3. u \in Seq(Signs)
  BY MovedOn
<1>4. files' = g
  BY Zenon DEF Received, FirstOf, Put
<1> HIDE DEF u
<1>5. c \in Seq(Signs)
  <2>1. files[N].content \in Seq(Signs)
    BY <1>2 DEF Stored
  <2> QED BY <1>3, <2>1, PutTogether
<1> HIDE DEF c
<1>6. new \in Stored /\ new.name = files[N].name /\ new.content = c
  BY <1>2, <1>5 DEF Stored
<1> HIDE DEF new
<1>7. g \in Seq(Stored) /\ Len(g) = N /\ g[N] = new /\ \A k \in 1..N - 1 : g[k] = files[k]
  BY <1>1, <1>6
<1> HIDE DEF g
<1> QED BY <1>4, <1>6, <1>7 DEF N, c, u

\* The boundary is found behind what is missing of a content.
LEMMA BoundaryFound ==
  ASSUME NEW items, Sendable(items), NEW i \in 1..Len(items), NEW come \in Seq(Signs),
         Len(come) <= Len(items[i].content), buf \in Seq(Signs), rest \in Seq(Signs),
         Put(come, Ahead) = ContentOn(items, i)
  PROVE  LET more == RestOf(items[i].content, Len(come))
         IN  /\ more \in Seq(Signs) /\ Len(more) = Len(items[i].content) - Len(come)
             /\ Put(come, more) = items[i].content
             /\ Found(CrlfDashBoundary) <=> Len(more) + Len(CrlfDashBoundary) <= Len(buf)
             /\ Found(CrlfDashBoundary) =>
                  LET n == Len(more) + Len(CrlfDashBoundary)
                  IN  /\ Find(CrlfDashBoundary) = Len(more) /\ FirstOf(buf, Len(more)) = more
                      /\ RestOf(buf, n) \in Seq(Signs)
                      /\ Put(RestOf(buf, n), rest) = EndOn(items, i + 1)
<1> DEFINE S == Seq(Signs)
           K == CrlfDashBoundary
           e == EndOn(items, i + 1)
           c == items[i].content
           R == Put(K, e)
           more == RestOf(c, Len(come))
<1>1. K \in S /\ Len(K) = Len(Boundary) + 4 /\ Boundary \in S
  BY FormMarks
<1>2. K # << >>
  <2> HIDE DEF K
  <2>1. Len(K) # 0
    BY <1>1
  <2> QED BY <2>1
<1>3. c \in S /\ e \in S /\ ContentOn(items, i) = Put(c, R)
  BY FormTyped, FormLaid, Zenon DEF Put
<1>4. come \in S /\ buf \in S /\ rest \in S
  OBVIOUS
<1>5. \A n \in 0..Len(c) : StandsAt(K, c \o K, n) => n = Len(c)
  <2>1. i \in DOMAIN items
    BY FormTyped
  <2> QED BY <2>1, Zenon DEF Sendable
<1> HIDE DEF S, K, e, c
<1>6. R \in S
  BY <1>1, <1>3, PutTogether DEF S
<1>7. Ahead \in S
  BY <1>4, PutTogether DEF Ahead, S
<1> HIDE DEF R
<1>8. /\ FirstOf(c, Len(come)) = come /\ more \in S /\ Len(more) = Len(c) - Len(come)
      /\ Put(more, R) = Ahead
  <2>1. Put(c, R) = Put(come, Ahead) /\ Len(come) <= Len(c)
    BY <1>3 DEF c
  <2> QED BY ONLY <1>3, <1>4, <1>6, <1>7, <2>1, TakenAway DEF S
<1>9. Put(come, more) = c
  <2>1. Len(come) \in 0..Len(c)
    <3>1. Len(come) \in Nat /\ Len(c) \in Nat /\ Len(come) <= Len(c)
      BY <1>3, <1>4 DEF S, c
    <3> QED BY ONLY <3>1
  <2>2. Put(FirstOf(c, Len(come)), RestOf(c, Len(come))) = c
    BY ONLY <1>3, <2>1, MovedOn DEF S
  <2> QED BY <1>8, <2>2
<1>10. Len(come) \in Nat /\ Len(c) \in Nat /\ Len(more) \in Nat /\ Len(K) \in Nat
  BY <1>1, <1>3, <1>4, <1>8 DEF S
<1> HIDE DEF more
<1>11. ASSUME NEW n \in 0..Len(more), StandsAt(K, Put(more, K), n) PROVE n = Len(more)
  <2> DEFINE t == Put(more, K)
             m == Len(come) + n
  <2>1. t \in S /\ n \in Nat
    BY <1>1, <1>8, PutTogether DEF S
  <2>2. come \o t = c \o K
    <3>1. Put(Put(come, more), K) = Put(come, Put(more, K))
      BY <1>1, <1>4, <1>8, PutTogether DEF S
    <3> QED BY <1>9, <3>1, Zenon DEF Put
  <2>3. StandsAt(K, t, n)
    BY <1>11
  <2> HIDE DEF t
  <2>4. StandsAt(K, come \o t, m)
    BY ONLY <1>1, <1>4, <2>1, <2>3, StandsInWhole DEF S
  <2>5. m \in 0..Len(c)
    BY <1>8, <1>10, <2>1
  <2>6. m = Len(c)
    BY <1>5, <2>2, <2>4, <2>5
  <2>7. Len(come) + n = Len(c) /\ Len(more) = Len(c) - Len(come) /\ n \in Nat
    BY <1>8, <2>1, <2>6
  <2> QED BY ONLY <1>10, <2>7
<1>12. Put(buf, rest) = Put(more, Put(K, e))
  BY <1>8 DEF Ahead, R
<1>13. /\ Found(K) <=> Len(more) + Len(K) <= Len(buf)
       /\ Found(K) => /\ Find(K) = Len(more) /\ FirstOf(buf, Len(more)) = more
                      /\ RestOf(buf, Len(more) + Len(K)) \in S
                      /\ Put(RestOf(buf, Len(more) + Len(K)), rest) = e
  BY <1>1, <1>2, <1>3, <1>4, <1>8, <1>11, <1>12, FoundAndTaken DEF S
<1> QED BY <1>8, <1>9, <1>13 DEF S, K, e, c, more

\* A content is received up to the boundary, however it is cut into pieces.
LEMMA FormBody ==
  ASSUME NEW items, Sendable(items), FormInv(items), Body
  PROVE  FormInv(items)'
<1> DEFINE S == Seq(Signs)
           K == CrlfDashBoundary
<1>1. /\ parsing /\ buf # << >> /\ state = 3 /\ rest' = rest /\ buf \in S /\ rest \in S
  BY DEF Body, At, FormInv
<1>2. PICK s, i : Now(items, s, i) /\ AtContent(items, s, i)
  BY <1>1, FormSituation
<1> DEFINE N == Len(files)
           come == files[N].content
           c == items[i].content
           more == RestOf(c, Len(come))
<1>3. /\ i \in 1..Len(items) /\ i <= Len(items) /\ s \in 1..Len(items) /\ i \in s..Len(items) + 1
      /\ i + 1 \in s..Len(items) + 1 /\ Len(c) \in Nat /\ c \in S /\ i \in Nat /\ s \in Nat /\ s <= i
  BY <1>2, NowMeans
<1>4. /\ files \in Seq(Stored) /\ N = i - s + 1 /\ N <= MaxFiles /\ Good(items[i])
      /\ \A k \in 1..i - s : Good(items[s + k - 1]) /\ files[k] = Parts(items)[s + k - 1]
      /\ files[N].name = NameAmong(items[i].head, Len(items[i].head))
      /\ Put(come, Ahead) = ContentOn(items, i) /\ Len(come) <= Len(c)
  BY <1>2 DEF AtContent, Complete
<1>5. N \in Nat /\ N \in 1..N /\ files # << >> /\ N - 1 = i - s
  <2>1. N \in Nat /\ N >= 1 /\ N - 1 = i - s
    BY <1>3, <1>4
  <2>2. files # << >>
    BY <2>1
  <2> QED BY <2>1, <2>2
<1>6. come \in S /\ Len(come) \in Nat
  <2>1. files[N] \in Stored
    BY <1>4, <1>5
  <2>2. come \in S
    BY <2>1 DEF Stored
  <2> QED BY <2>2
<1>7. Len(K) \in Nat /\ Len(K) >= 4 /\ K \in S
  <2>1. K \in S /\ Len(K) = Len(Boundary) + 4 /\ Boundary \in S
    BY FormMarks
  <2>2. Len(Boundary) \in Nat
    BY <2>1
  <2> QED BY <2>1, <2>2
<1> HIDE DEF K, S, N, come, c
<1>8. /\ more \in S /\ Len(more) = Len(c) - Len(come) /\ Put(come, more) = c
      /\ Found(K) <=> Len(more) + Len(K) <= Len(buf)
      /\ Found(K) => /\ Find(K) = Len(more) /\ FirstOf(buf, Len(more)) = more
                     /\ RestOf(buf, Len(more) + Len(K)) \in S
                     /\ Put(RestOf(buf, Len(more) + Len(K)), rest) = EndOn(items, i + 1)
  BY <1>1, <1>3, <1>4, <1>6, BoundaryFound DEF S, K, c
<1>9. Len(more) \in Nat /\ Len(buf) \in Nat
  BY <1>1, <1>8 DEF S
<1> HIDE DEF more
<1>10. CASE Len(buf) < Len(K) /\ Wait(buf)
  <2>1. UNCHANGED <<buf, rest, state, refused, valid, named, files, cut>> /\ ~parsing'
    BY <1>1, <1>10 DEF Wait, Return
  <2>2. Len(buf) < Len(c) - Len(come) + Len(K)
    BY <1>3, <1>4, <1>6, <1>7, <1>9, <1>10
  <2>3. AtContent(items, s, i)'
    BY <1>2, <2>1, <2>2, PartsKept DEF AtContent, Ahead, K, N, come, c
  <2>4. Reading(items, s)'
    BY <1>2, <1>3, <2>1, <2>3 DEF Reading, Now
  <2> QED BY <1>1, <1>2, <1>3, <2>1, <2>4 DEF FormInv, Now, S
<1>11. CASE /\ Found(K) /\ Received(Find(K)) /\ Go(4, Find(K) + Len(K))
            /\ UNCHANGED <<valid, named, cut>>
  <2>1. Find(K) = Len(more) /\ Len(more) \in 0..Len(buf)
    BY <1>7, <1>8, <1>9, <1>11
  <2>2. /\ state' = 4 /\ UNCHANGED <<parsing, refused, valid, named, cut>>
        /\ buf' = RestOf(buf, Len(more) + Len(K))
    BY <1>11, <2>1 DEF Go, From, RestOf
  <2>3. /\ files' \in Seq(Stored) /\ Len(files') = N /\ \A k \in 1..N - 1 : files'[k] = files[k]
        /\ files'[N].name = files[N].name
        /\ files'[N].content = Put(come, FirstOf(buf, Len(more)))
    BY <1>1, <1>4, <1>5, <1>11, <2>1, ReceivedMeans DEF N, come, S
  <2>4. files'[N].content = c
    BY <1>8, <1>11, <2>3
  <2>5. files'[N] = Parts(items)[i]
    <3>1. files'[N] \in Stored
      BY <1>5, <2>3
    <3>2. files'[N] = [name |-> files'[N].name, content |-> files'[N].content]
      BY <3>1 DEF Stored
    <3>3. i \in DOMAIN items
      BY <1>3, FormTyped
    <3>4. Parts(items)[i] = [name    |-> NameAmong(items[i].head, Len(items[i].head)),
                             content |-> items[i].content]
      BY <3>3 DEF Parts
    <3> QED BY <1>4, <2>3, <2>4, <3>2, <3>4 DEF c
  <2>6. Delivered(items, s, i + 1)'
    <3>1. (i + 1) - s = N
      BY <1>3, <1>4
    <3>2. \A k \in 1..N : Good(items[s + k - 1]) /\ files'[k] = Parts(items)[s + k - 1]
      <4>1. \A k \in 1..N : k \in 1..N - 1 \/ k = N
        BY <1>5
      <4>2. s + N - 1 = i
        BY <1>3, <1>4
      <4>3. \A k \in 1..N - 1 : Good(items[s + k - 1]) /\ files'[k] = Parts(items)[s + k - 1]
        BY <1>4, <1>5, <2>3
      <4> QED BY <1>4, <2>5, <4>1, <4>2, <4>3
    <3> QED BY <1>4, <2>3, <3>1, <3>2 DEF Delivered, Complete
  <2>7. buf' \in S /\ Ahead' = EndOn(items, i + 1)
    BY <1>1, <1>8, <1>11, <2>2 DEF Ahead
  <2>8. AtBoundary(items, s, i + 1)'
    BY <1>1, <2>2, <2>6, <2>7 DEF AtBoundary
  <2>9. Reading(items, s)'
    BY <1>2, <1>3, <2>2, <2>8 DEF Reading, Now
  <2> QED BY <1>1, <1>2, <1>3, <2>2, <2>7, <2>9 DEF FormInv, Now, S
<1>12. CASE /\ Len(buf) >= Len(K) /\ ~Found(K) /\ Received(Len(buf) - Kept)
            /\ buf' = From(Len(buf) - Kept) /\ parsing' = FALSE
            /\ UNCHANGED <<state, refused, valid, named, cut>>
  <2> DEFINE n == Len(buf) - Len(K)
  <2>1. /\ n \in 0..Len(buf) /\ n < Len(more) /\ Len(buf) - n = Len(K)
        /\ Received(n) /\ buf' = RestOf(buf, n)
    BY <1>7, <1>8, <1>9, <1>12 DEF From, RestOf, Kept, K
  <2>2. /\ files' \in Seq(Stored) /\ Len(files') = N /\ \A k \in 1..N - 1 : files'[k] = files[k]
        /\ files'[N].name = files[N].name
        /\ files'[N].content = Put(come, FirstOf(buf, n))
    <3> HIDE DEF n
    <3> QED BY <1>1, <1>4, <1>5, <2>1, ReceivedMeans DEF N, come, S
  <2> HIDE DEF n
  <2>3. /\ FirstOf(buf, n) \in S /\ Len(FirstOf(buf, n)) = n
        /\ RestOf(buf, n) \in S /\ Len(RestOf(buf, n)) = Len(K)
        /\ Put(FirstOf(buf, n), RestOf(buf, n)) = buf
    <3>1. buf \in Seq(Signs) /\ n \in 0..Len(buf)
      BY <1>1, <2>1 DEF S
    <3>2. /\ FirstOf(buf, n) \in Seq(Signs) /\ Len(FirstOf(buf, n)) = n
          /\ RestOf(buf, n) \in Seq(Signs) /\ Len(RestOf(buf, n)) = Len(buf) - n
          /\ Put(FirstOf(buf, n), RestOf(buf, n)) = buf
      BY ONLY <3>1, MovedOn
    <3> QED BY <2>1, <3>2 DEF S
  <2> DEFINE u == FirstOf(buf, n)
             v == RestOf(buf, n)
             come2 == files'[N].content
  <2>4. /\ u \in S /\ v \in S /\ Len(u) = n /\ Len(v) = Len(K) /\ Put(u, v) = buf
        /\ come2 = Put(come, u) /\ buf' = v
    BY <2>1, <2>2, <2>3
  <2> HIDE DEF u, v, come2
  <2>5. come2 \in S /\ Len(come2) = Len(come) + n
    BY <1>6, <2>4, PutTogether DEF S
  <2>6. Put(come2, Ahead') = ContentOn(items, i)
    <3> DEFINE w == Put(v, rest)
    <3>1. w \in S
      BY <1>1, <2>4, PutTogether DEF S
    <3>2. Ahead' = w
      BY <1>1, <2>4 DEF Ahead
    <3>3. Put(Put(u, v), rest) = Put(u, w)
      BY <1>1, <2>4, PutTogether DEF S
    <3> HIDE DEF w
    <3>4. Put(Put(come, u), w) = Put(come, Put(u, w))
      BY <1>6, <2>4, <3>1, PutTogether DEF S
    <3>5. Put(come, Put(buf, rest)) = ContentOn(items, i)
      BY <1>4 DEF Ahead
    <3> QED BY ONLY <2>4, <3>2, <3>3, <3>4, <3>5, Zenon
  <2>7. Len(come2) <= Len(c) /\ Len(v) < Len(c) - Len(come2) + Len(K)
    <3>1. /\ Len(come2) = Len(come) + n /\ n \in Nat /\ n < Len(more) /\ Len(v) = Len(K)
          /\ Len(more) = Len(c) - Len(come) /\ Len(come) \in Nat /\ Len(c) \in Nat
      BY <1>3, <1>6, <1>8, <2>1, <2>4, <2>5
    <3>2. Len(K) \in Nat
      BY <1>7
    <3> QED BY ONLY <3>1, <3>2
  <2>8. Complete(items, s, i - s)'
    BY <1>4, <1>5, <2>2 DEF Complete
  <2>9. AtContent(items, s, i)'
    <3>1. files'[Len(files')] = files'[N]
      BY <2>2
    <3>2. Len(files') = i - s + 1 /\ Len(files') <= MaxFiles
      BY <1>4, <2>2
    <3>3. files'[Len(files')].name = NameAmong(items[i].head, Len(items[i].head))
      BY <1>4, <2>2, <3>1
    <3>4. state' = 3
      BY <1>1, <1>12
    <3>5. /\ Put(files'[Len(files')].content, Ahead') = ContentOn(items, i)
          /\ Len(files'[Len(files')].content) <= Len(items[i].content)
          /\ Len(buf') < Len(items[i].content) - Len(files'[Len(files')].content)
                           + Len(CrlfDashBoundary)
      BY <2>4, <2>6, <2>7, <3>1 DEF come2, c, K
    <3> QED BY <1>3, <1>4, <2>8, <3>2, <3>3, <3>4, <3>5 DEF AtContent
  <2>10. Reading(items, s)'
    BY <1>2, <1>3, <1>12, <2>9 DEF Reading, Now
  <2> QED BY <1>1, <1>2, <1>3, <1>12, <2>4, <2>10 DEF FormInv, Now, S
<1>13. \/ Len(buf) < Len(K) /\ Wait(buf)
       \/ /\ Found(K) /\ Received(Find(K)) /\ Go(4, Find(K) + Len(K))
          /\ UNCHANGED <<valid, named, cut>>
       \/ /\ Len(buf) >= Len(K) /\ ~Found(K) /\ Received(Len(buf) - Kept)
          /\ buf' = From(Len(buf) - Kept) /\ parsing' = FALSE
          /\ UNCHANGED <<state, refused, valid, named, cut>>
  BY Zenon DEF Body, K
<1> QED BY <1>10, <1>11, <1>12, <1>13

\* A text that begins with two symbols begins with them as soon as both are there.
LEMMA BeginsWith ==
  ASSUME NEW C, NEW b \in Seq(C), NEW r \in Seq(C), NEW m \in Seq(C), NEW y \in Seq(C),
         Len(m) = 2, Put(b, r) = Put(m, y)
  PROVE  /\ IsPrefix(m, b) <=> 2 <= Len(b)
         /\ IsPrefix(m, b) => RestOf(b, 2) \in Seq(C) /\ Put(RestOf(b, 2), r) = y
         /\ \A l \in Seq(C) : Len(l) = 2 /\ l[1] # m[1] => ~IsPrefix(l, b)
<1>1. 0 \in Nat /\ Len(b) \in Nat
  OBVIOUS
<1>2. StandsAt(m, b \o r, 0)
  <2>1. StandsAt(m, m \o y, 0)
    BY StandsFirst
  <2>2. m \o y = b \o r
    BY Zenon DEF Put
  <2> QED BY <2>1, <2>2
<1>3. IsPrefix(m, b) <=> StandsAt(m, b, 0)
  BY PrefixMeans
<1>4. 2 <= Len(b) => StandsAt(m, b, 0)
  <2>1. 0 + Len(m) <= Len(b) /\ StandsAt(m, b \o r, 0) => StandsAt(m, b, 0)
    <3>1. m \in Seq(C) /\ b \in Seq(C) /\ r \in Seq(C) /\ 0 \in Nat
      OBVIOUS
    <3> QED BY ONLY <3>1, StandsInWhole
  <2>2. 2 <= Len(b) => 0 + Len(m) <= Len(b)
    BY <1>1
  <2> QED BY <1>2, <2>1, <2>2
<1>5. StandsAt(m, b, 0) => 2 <= Len(b)
  BY <1>1 DEF StandsAt
<1>6. IsPrefix(m, b) => RestOf(b, 2) \in Seq(C) /\ Put(RestOf(b, 2), r) = y
  <2> SUFFICES ASSUME Len(m) <= Len(b)
               PROVE  RestOf(b, Len(m)) \in Seq(C) /\ Put(RestOf(b, Len(m)), r) = y
    BY <1>3, <1>5
  <2>1. /\ b \in Seq(C) /\ r \in Seq(C) /\ m \in Seq(C) /\ y \in Seq(C)
        /\ Put(b, r) = Put(m, y) /\ Len(m) <= Len(b)
    OBVIOUS
  <2> QED BY ONLY <2>1, TakenAway
<1>7. ASSUME NEW l \in Seq(C), Len(l) = 2, l[1] # m[1] PROVE ~IsPrefix(l, b)
  <2> SUFFICES ASSUME IsPrefix(l, b) PROVE FALSE
    OBVIOUS
  <2>1. StandsAt(l, b, 0)
    BY PrefixMeans
  <2>2. StandsAt(l, b \o r, 0)
    <3>1. l \in Seq(C) /\ b \in Seq(C) /\ r \in Seq(C) /\ 0 \in Nat
      OBVIOUS
    <3> QED BY ONLY <2>1, <3>1, StandsInWhole
  <2> DEFINE t == b \o r
  <2>3. StandsAt(l, t, 0) /\ StandsAt(m, t, 0)
    BY <1>2, <2>2
  <2> HIDE DEF t
  <2>4. 1 \in 1..Len(l) /\ 1 \in 1..Len(m)
    BY <1>7
  <2>5. t[0 + 1] = l[1] /\ t[0 + 1] = m[1]
    BY <2>3, <2>4 DEF StandsAt
  <2> QED BY <1>7, <2>5
<1> QED BY <1>3, <1>4, <1>5, <1>6, <1>7

\* What is left of a line end when its beginning is gone.
LEMMA LineEndLeft ==
  ASSUME NEW w \in Seq(Signs), NEW r \in Seq(Signs), Put(w, r) = Crlf
  PROVE  r \in {<< >>, Crlf, <<"LF">>}
<1>1. /\ Len(Crlf) = Len(w) + Len(r) /\ Len(w) \in Nat /\ Len(r) \in Nat
      /\ \A k \in 1..Len(r) : Crlf[Len(w) + k] = r[k]
  <2>1. w \in Seq(Signs) /\ r \in Seq(Signs) /\ Put(w, r) = Crlf
    OBVIOUS
  <2> QED BY ONLY <2>1, Joined DEF Put
<1>2. Len(Crlf) = 2 /\ Crlf[1] = "CR" /\ Crlf[2] = "LF" /\ Crlf \in Seq(Signs)
  BY FormMarks
<1>3. Len(r) = 0 \/ (Len(r) = 1 /\ Len(w) = 1) \/ (Len(r) = 2 /\ Len(w) = 0)
  <2> DEFINE p == Len(w)
             q == Len(r)
  <2>1. 2 = p + q /\ p \in Nat /\ q \in Nat
    BY ONLY <1>1, <1>2, Zenon
  <2> HIDE DEF p, q
  <2>2. q = 0 \/ (q = 1 /\ p = 1) \/ (q = 2 /\ p = 0)
    BY ONLY <2>1
  <2> QED BY <2>2 DEF p, q
<1>4. CASE Len(r) = 0
  BY <1>4
<1>5. CASE Len(r) = 1 /\ Len(w) = 1
  <2>1. r[1] = "LF"
    <3>1. 1 \in 1..Len(r) /\ Len(w) + 1 = 2
      BY <1>5
    <3> QED BY <1>1, <1>2, <3>1
  <2>2. r = <<"LF">>
    BY <1>5, <2>1
  <2> QED BY <2>2
<1>6. CASE Len(r) = 2 /\ Len(w) = 0
  <2>1. \A k \in 1..Len(r) : Crlf[k] = r[k]
    <3>1. \A k \in 1..Len(r) : Len(w) + k = k
      BY <1>6
    <3> QED BY <1>1, <3>1
  <2>2. r = Crlf
    BY <1>2, <1>6, <2>1, SameText
  <2> QED BY <2>2
<1> QED BY <1>3, <1>4, <1>5, <1>6

\* Behind a boundary the next part begins or the form ends.
LEMMA FormBoundaryEnd ==
  ASSUME NEW items, Sendable(items), FormInv(items), BoundaryEnd
  PROVE  FormInv(items)'
<1> DEFINE S == Seq(Signs)
<1>1. /\ parsing /\ buf # << >> /\ state = 4 /\ rest' = rest /\ buf \in S /\ rest \in S
  BY DEF BoundaryEnd, At, FormInv
<1>2. /\ Len(items) \in Nat
      /\ Crlf \in S /\ Len(Crlf) = 2 /\ Crlf[1] = "CR"
      /\ Dash \in S /\ Len(Dash) = 2 /\ Dash[1] = "-"
  BY FormTyped, FormMarks
<1>3. PICK s \in 1..Len(items) : (~cut => s = 1) /\ (Reading(items, s) \/ Over(items, s))
  BY <1>1 DEF FormInv, Before, Stopped
<1>4. Len(buf) \in Nat /\ Len(buf) # 0 /\ From(2) = RestOf(buf, 2)
  BY <1>1 DEF From, RestOf
<1>5. \/ IsPrefix(Crlf, buf) /\ Go(1, 2) /\ UNCHANGED <<valid, named, files, cut>>
      \/ IsPrefix(Dash, buf) /\ valid' = TRUE /\ Go(4, Len(buf)) /\ UNCHANGED <<named, files, cut>>
      \/ ~IsPrefix(Crlf, buf) /\ ~IsPrefix(Dash, buf) /\ Wait(buf)
  BY <1>2 DEF BoundaryEnd
<1> HIDE DEF S
<1>6. ASSUME NEW i \in s..Len(items) + 1, ~refused, ~valid, AtBoundary(items, s, i)
      PROVE  FormInv(items)'
  <2>1. Delivered(items, s, i) /\ Ahead = EndOn(items, i) /\ i \in Nat
    BY <1>2, <1>6 DEF AtBoundary
  <2>2. ASSUME ~IsPrefix(Crlf, buf), ~IsPrefix(Dash, buf), Wait(buf), Len(buf) < 2
        PROVE  FormInv(items)'
    <3>1. UNCHANGED <<buf, rest, state, refused, valid, named, files, cut>> /\ ~parsing'
      BY <1>1, <2>2 DEF Wait, Return
    <3>2. AtBoundary(items, s, i)'
      BY <1>6, <2>2, <3>1, PartsKept DEF AtBoundary, Ahead
    <3>3. Reading(items, s)'
      BY <1>6, <3>1, <3>2 DEF Reading
    <3> QED BY <1>1, <1>3, <3>1, <3>3 DEF FormInv, S
  <2>3. CASE i <= Len(items)
    <3> DEFINE y == HeadOn(items, i, 1)
    <3>1. i \in 1..Len(items)
      BY <1>2, <2>1, <2>3
    <3>2. y \in S
      <4>1. items[i].head \in Seq(Lines)
        BY <3>1, FormTyped
      <4>2. 1 \in 1..Len(items[i].head) + 1
        BY <4>1
      <4> QED BY <3>1, <4>2, PartLaid DEF S
    <3>3. Put(buf, rest) = Put(Crlf, y)
      BY <2>1, <3>1, FormLaid, Zenon DEF Ahead, Put
    <3> HIDE DEF y
    <3>4. /\ IsPrefix(Crlf, buf) <=> 2 <= Len(buf)
          /\ IsPrefix(Crlf, buf) => RestOf(buf, 2) \in S /\ Put(RestOf(buf, 2), rest) = y
          /\ ~IsPrefix(Dash, buf)
      <4>1. /\ buf \in Seq(Signs) /\ rest \in Seq(Signs) /\ Crlf \in Seq(Signs) /\ y \in Seq(Signs)
            /\ Len(Crlf) = 2 /\ Put(buf, rest) = Put(Crlf, y)
        BY <1>1, <1>2, <3>2, <3>3 DEF S
      <4>2. /\ IsPrefix(Crlf, buf) <=> 2 <= Len(buf)
            /\ IsPrefix(Crlf, buf) => RestOf(buf, 2) \in Seq(Signs) /\ Put(RestOf(buf, 2), rest) = y
            /\ \A l \in Seq(Signs) : Len(l) = 2 /\ l[1] # Crlf[1] => ~IsPrefix(l, buf)
        BY ONLY <4>1, BeginsWith
      <4>3. Dash[1] # Crlf[1]
        BY <1>2
      <4> QED BY <1>2, <4>2, <4>3 DEF S
    <3>5. CASE IsPrefix(Crlf, buf) /\ Go(1, 2) /\ UNCHANGED <<valid, named, files, cut>>
      <4>1. /\ state' = 1 /\ buf' = RestOf(buf, 2)
            /\ UNCHANGED <<parsing, refused, valid, named, files, cut>>
        BY <1>4, <3>5 DEF Go
      <4>2. Delivered(items, s, i)' /\ Ahead' = y /\ buf' \in S
        BY <1>1, <2>1, <3>4, <3>5, <4>1, PartsKept DEF Ahead
      <4>3. AtEntry(items, s, i)'
        BY <1>1, <2>3, <4>1, <4>2 DEF AtEntry, y
      <4>4. Reading(items, s)'
        BY <1>6, <4>1, <4>3 DEF Reading
      <4> QED BY <1>1, <1>3, <4>1, <4>2, <4>4 DEF FormInv, S
    <3>6. Wait(buf) /\ ~IsPrefix(Crlf, buf) => Len(buf) < 2
      BY <1>4, <3>4
    <3> QED BY <1>5, <2>2, <3>4, <3>5, <3>6
  <2>4. CASE i = Len(items) + 1
    <3>1. Put(buf, rest) = Put(Dash, Crlf)
      <4>1. ~(i <= Len(items))
        BY <1>2, <2>4
      <4> QED BY <2>1, <4>1, Zenon DEF Ahead, Put, EndOn
    <3>2. /\ IsPrefix(Dash, buf) <=> 2 <= Len(buf)
          /\ IsPrefix(Dash, buf) => RestOf(buf, 2) \in S /\ Put(RestOf(buf, 2), rest) = Crlf
          /\ ~IsPrefix(Crlf, buf)
      <4>1. /\ buf \in Seq(Signs) /\ rest \in Seq(Signs) /\ Dash \in Seq(Signs) /\ Crlf \in Seq(Signs)
            /\ Len(Dash) = 2 /\ Put(buf, rest) = Put(Dash, Crlf)
        BY <1>1, <1>2, <3>1 DEF S
      <4>2. /\ IsPrefix(Dash, buf) <=> 2 <= Len(buf)
            /\ IsPrefix(Dash, buf) => /\ RestOf(buf, 2) \in Seq(Signs)
                                      /\ Put(RestOf(buf, 2), rest) = Crlf
            /\ \A l \in Seq(Signs) : Len(l) = 2 /\ l[1] # Dash[1] => ~IsPrefix(l, buf)
        BY ONLY <4>1, BeginsWith
      <4>3. Dash[1] # Crlf[1]
        BY <1>2
      <4> QED BY <1>2, <4>2, <4>3 DEF S
    <3>3. CASE /\ IsPrefix(Dash, buf) /\ valid' = TRUE /\ Go(4, Len(buf))
               /\ UNCHANGED <<named, files, cut>>
      <4>1. /\ state' = 4 /\ buf' = << >> /\ valid' /\ UNCHANGED <<parsing, refused, files, cut>>
        BY <1>1, <3>3 DEF Go, From, S
      <4>2. Ahead' = rest
        BY <1>1, <4>1, NothingFirst DEF Ahead, Put, S
      <4>3. rest \in {<< >>, Crlf, <<"LF">>}
        BY <1>1, <3>2, <3>3, LineEndLeft DEF S
      <4>4. Delivered(items, s, Len(items) + 1)'
        BY <2>1, <2>4, <4>1, PartsKept
      <4>5. Over(items, s)'
        BY <1>6, <4>1, <4>2, <4>3, <4>4 DEF Over
      <4>6. buf' \in S
        BY <4>1 DEF S
      <4> QED BY <1>1, <1>3, <4>1, <4>5, <4>6 DEF FormInv, S
    <3>4. Wait(buf) /\ ~IsPrefix(Dash, buf) => Len(buf) < 2
      BY <1>4, <3>2
    <3> QED BY <1>5, <2>2, <3>2, <3>3, <3>4
  <2> QED BY <1>2, <2>1, <2>3, <2>4
<1>7. ASSUME Over(items, s) PROVE FormInv(items)'
  <2>1. ~refused /\ valid /\ Delivered(items, s, Len(items) + 1) /\ Ahead \in {<< >>, Crlf, <<"LF">>}
    BY <1>1, <1>7 DEF Over
  <2>2. Len(Ahead) = Len(buf) + Len(rest) /\ Len(rest) \in Nat
    BY <1>1, PutTogether DEF Ahead, S
  <2>3. Len(Ahead) <= 2 /\ (2 <= Len(Ahead) => Ahead = Crlf)
    <3>1. Len(<< >>) = 0 /\ Len(<<"LF">>) = 1
      OBVIOUS
    <3> DEFINE p == Len(Ahead)
    <3>2. \/ Ahead = Crlf /\ p = 2
          \/ p = 0
          \/ p = 1
      BY ONLY <1>2, <2>1, <3>1, Zenon
    <3> HIDE DEF p
    <3>3. p <= 2 /\ (2 <= p => Ahead = Crlf)
      BY ONLY <3>2
    <3> QED BY <3>3 DEF p
  <2>4. CASE IsPrefix(Crlf, buf) /\ Go(1, 2) /\ UNCHANGED <<valid, named, files, cut>>
    <3>1. /\ state' = 1 /\ buf' = RestOf(buf, 2) /\ UNCHANGED <<parsing, refused, valid, files, cut>>
      BY <1>4, <2>4 DEF Go
    <3>2. 2 <= Len(buf)
      <4>1. StandsAt(Crlf, buf, 0)
        BY <1>1, <1>2, <2>4, PrefixMeans DEF S
      <4> QED BY <1>2, <1>4, <4>1 DEF StandsAt
    <3>3. Len(buf) = 2 /\ Len(rest) = 0
      <4> DEFINE p == Len(buf)
                 q == Len(rest)
      <4>1. p + q <= 2 /\ 2 <= p /\ p \in Nat /\ q \in Nat
        BY ONLY <1>4, <2>2, <2>3, <3>2, Zenon
      <4> HIDE DEF p, q
      <4>2. p = 2 /\ q = 0
        BY ONLY <4>1
      <4> QED BY <4>2 DEF p, q
    <3>4. RestOf(buf, 2) = << >> /\ rest = << >>
      BY <1>1, <3>3 DEF RestOf, S
    <3>5. Ahead' = << >>
      BY <1>1, <3>1, <3>4 DEF Ahead, Put
    <3>6. Over(items, s)'
      BY <2>1, <3>1, <3>5, PartsKept DEF Over
    <3> QED BY <1>1, <1>3, <3>1, <3>4, <3>6 DEF FormInv, S
  <2>5. ~IsPrefix(Dash, buf)
    <3> SUFFICES ASSUME IsPrefix(Dash, buf) PROVE FALSE
      OBVIOUS
    <3>1. StandsAt(Dash, buf, 0)
      BY <1>1, <1>2, PrefixMeans DEF S
    <3>2. 2 <= Len(buf) /\ buf[0 + 1] = "-" /\ 0 + 1 = 1
      BY <1>2, <1>4, <3>1 DEF StandsAt
    <3>3. Put(buf, rest)[1] = buf[1]
      <4>1. 1 \in 1..Len(buf)
        BY <1>4, <3>2
      <4>2. buf \in Seq(Signs) /\ rest \in Seq(Signs)
        BY <1>1 DEF S
      <4> QED BY ONLY <4>1, <4>2, Joined DEF Put
    <3>4. Ahead = Crlf
      BY <1>4, <2>2, <2>3, <3>2
    <3>5. Crlf[1] = "-"
      BY <3>2, <3>3, <3>4 DEF Ahead
    <3> QED BY <1>2, <3>5
  <2>6. CASE ~IsPrefix(Crlf, buf) /\ ~IsPrefix(Dash, buf) /\ Wait(buf)
    <3>1. UNCHANGED <<buf, rest, state, refused, valid, named, files, cut>>
      BY <1>1, <2>6 DEF Wait, Return
    <3>2. Over(items, s)'
      BY <1>7, <3>1, PartsKept DEF Over, Ahead
    <3> QED BY <1>1, <1>3, <3>1, <3>2 DEF FormInv, S
  <2> QED BY <1>5, <2>4, <2>5, <2>6
<1>8. Reading(items, s) =>
        \E i \in s..Len(items) + 1 : ~refused /\ ~valid /\ AtBoundary(items, s, i)
  <2>1. \A i : ~AtEntry(items, s, i) /\ ~AtContent(items, s, i) /\ \A j : ~AtLine(items, s, i, j)
    BY <1>1 DEF AtEntry, AtContent, AtLine
  <2> QED BY <2>1 DEF Reading
<1> QED BY <1>3, <1>6, <1>7, <1>8

\* How much there is at least from a line of a head on, and from a content on.
LEMMA MuchAhead ==
  ASSUME NEW items, Sendable(items), NEW i \in 1..Len(items)
  PROVE  /\ \A j \in 1..Len(items[i].head) + 1 :
              Len(HeadOn(items, i, j)) >= IF j <= Len(items[i].head) THEN 3 ELSE 2
         /\ Len(ContentOn(items, i)) >= Len(items[i].content) + Len(CrlfDashBoundary)
         /\ Len(EndOn(items, i)) >= 2 /\ Len(EndOn(items, Len(items) + 1)) >= 2
<1> DEFINE S == Seq(Signs)
           L == Len(items[i].head)
           On(j) == HeadOn(items, i, j)
           Long(x, y) == Len(Put(x, y)) = Len(x) + Len(y) /\ Len(x) \in Nat /\ Len(y) \in Nat
<1>1. /\ \A j \in 1..L + 1 : On(j) \in S
      /\ \A j \in 1..L : /\ <<items[i].head[j]>> \in S /\ Len(<<items[i].head[j]>>) = 1
                         /\ On(j) = Put(<<items[i].head[j]>>, Put(Crlf, On(j + 1)))
      /\ On(L + 1) = Put(Crlf, ContentOn(items, i)) /\ ContentOn(items, i) \in S
  BY PartLaid DEF Put
<1>2. /\ ContentOn(items, i) = Put(items[i].content, Put(CrlfDashBoundary, EndOn(items, i + 1)))
      /\ EndOn(items, i + 1) \in S /\ EndOn(items, i) = Put(Crlf, On(1))
  BY FormLaid, Zenon DEF Put
<1>3. /\ Crlf \in S /\ Len(Crlf) = 2 /\ Dash \in S /\ Len(Dash) = 2 /\ CrlfDashBoundary \in S
  BY FormMarks
<1>4. Len(items) \in Nat /\ items[i].content \in S /\ L \in Nat
  <2>1. items[i].head \in Seq(Lines) /\ Len(items) \in Nat /\ items[i].content \in S
    BY FormTyped
  <2> QED BY <2>1
<1>5. \A x, y \in S : Put(x, y) \in S /\ Long(x, y)
  <2>1. \A x, y \in S : Put(x, y) \in S /\ Len(Put(x, y)) = Len(x) + Len(y)
    BY PutTogether
  <2>2. \A x \in S : Len(x) \in Nat
    OBVIOUS
  <2> HIDE DEF S
  <2> QED BY <2>1, <2>2
<1>6. EndOn(items, Len(items) + 1) = Put(Dash, Crlf)
  <2>1. ~(Len(items) + 1 <= Len(items))
    BY <1>4
  <2> QED BY <2>1 DEF EndOn, Put
<1> HIDE DEF S, L, On
<1>7. ASSUME NEW j \in 1..L + 1 PROVE Len(On(j)) >= IF j <= L THEN 3 ELSE 2
  <2>1. CASE j <= L
    <3> DEFINE l == <<items[i].head[j]>>
               y == On(j + 1)
    <3>1. j \in 1..L /\ j + 1 \in 1..L + 1
      BY <1>4, <2>1
    <3>2. l \in S /\ y \in S /\ Len(l) = 1 /\ On(j) = Put(l, Put(Crlf, y))
      BY <1>1, <3>1
    <3> HIDE DEF l, y
    <3>3. Long(Crlf, y) /\ Long(l, Put(Crlf, y))
      BY <1>3, <1>5, <3>2
    <3> DEFINE p == Len(On(j))
               q == Len(y)
    <3>4. p = 1 + (2 + q) /\ q \in Nat
      BY ONLY <1>3, <3>2, <3>3, Zenon
    <3> HIDE DEF p, q
    <3>5. p >= 3
      BY ONLY <3>4
    <3> QED BY <2>1, <3>5 DEF p
  <2>2. CASE ~(j <= L)
    <3> DEFINE y == ContentOn(items, i)
               p == Len(On(j))
               q == Len(y)
    <3>1. j = L + 1
      BY <1>4, <2>2
    <3>2. Long(Crlf, y) /\ On(j) = Put(Crlf, y)
      BY <1>1, <1>3, <1>5, <3>1
    <3> HIDE DEF y
    <3>3. p = 2 + q /\ q \in Nat
      BY ONLY <1>3, <3>2, Zenon
    <3> HIDE DEF p, q
    <3>4. p >= 2
      BY ONLY <3>3
    <3> QED BY <2>2, <3>4 DEF p
  <2> QED BY <2>1, <2>2
<1>8. Len(ContentOn(items, i)) >= Len(items[i].content) + Len(CrlfDashBoundary)
  <2> DEFINE K == CrlfDashBoundary
             c == items[i].content
             e == EndOn(items, i + 1)
             t == ContentOn(items, i)
  <2>1. t = Put(c, Put(K, e)) /\ Long(K, e) /\ Long(c, Put(K, e))
    BY <1>2, <1>3, <1>4, <1>5
  <2> HIDE DEF K, c, e, t
  <2> DEFINE a == Len(K)
             b == Len(c)
             d == Len(e)
             p == Len(t)
  <2>2. p = b + (a + d) /\ a \in Nat /\ b \in Nat /\ d \in Nat
    BY ONLY <2>1, Zenon
  <2> HIDE DEF a, b, d, p
  <2>3. p >= b + a
    BY ONLY <2>2
  <2> QED BY <2>3 DEF a, b, p, K, c, t
<1>9. Len(EndOn(items, i)) >= 2 /\ Len(EndOn(items, Len(items) + 1)) >= 2
  <2> DEFINE x == EndOn(items, i)
             y == EndOn(items, Len(items) + 1)
             h == On(1)
  <2>1. h \in S
    <3>1. 1 \in 1..L + 1
      BY <1>4
    <3> QED BY <1>1, <3>1
  <2>2. x = Put(Crlf, h) /\ Long(Crlf, h) /\ y = Put(Dash, Crlf) /\ Long(Dash, Crlf)
    BY <1>2, <1>3, <1>5, <1>6, <2>1
  <2> HIDE DEF x, y, h
  <2> DEFINE a == Len(x)
             b == Len(y)
             d == Len(h)
  <2>3. a = 2 + d /\ d \in Nat /\ b = 2 + 2
    BY ONLY <1>3, <2>2, Zenon
  <2> HIDE DEF a, b, d
  <2>4. a >= 2 /\ b >= 2
    BY ONLY <2>3
  <2> QED BY <2>4 DEF a, b, x, y
<1> QED BY <1>7, <1>8, <1>9 DEF L, On

\* While a part is being read, the content has not been read.
LEMMA ReadingGoesOn ==
  ASSUME NEW items, Sendable(items), NEW s \in 1..Len(items), Reading(items, s),
         buf \in Seq(Signs), ~parsing, rest = << >>
  PROVE  FALSE
<1>1. Len(items) \in Nat
  BY FormTyped
<1>2. Ahead = buf /\ Len(buf) \in Nat
  <2>1. Put(buf, << >>) = buf
    BY DEF Put
  <2> QED BY <2>1 DEF Ahead
<1>3. PICK i \in s..Len(items) + 1 :
         \/ AtEntry(items, s, i)
         \/ \E j \in 1..Len(items[i].head) + 1 : AtLine(items, s, i, j)
         \/ AtContent(items, s, i)
         \/ AtBoundary(items, s, i)
  BY DEF Reading
<1>4. i <= Len(items) => i \in 1..Len(items)
  BY <1>1
<1>5. CASE AtEntry(items, s, i)
  <2>1. buf = HeadOn(items, i, 1) /\ buf = << >> /\ i \in 1..Len(items)
    BY <1>2, <1>4, <1>5 DEF AtEntry
  <2>2. 1 \in 1..Len(items[i].head) + 1
    <3>1. items[i].head \in Seq(Lines)
      BY <2>1, FormTyped
    <3> QED BY <3>1
  <2>3. Len(HeadOn(items, i, 1)) >= IF 1 <= Len(items[i].head) THEN 3 ELSE 2
    BY <2>1, <2>2, MuchAhead
  <2>4. Len(buf) >= 2
    BY <1>2, <2>1, <2>3
  <2>5. Len(buf) = 0
    BY <2>1
  <2> QED BY <2>4, <2>5
<1>6. CASE \E j \in 1..Len(items[i].head) + 1 : AtLine(items, s, i, j)
  <2>1. PICK j \in 1..Len(items[i].head) + 1 : AtLine(items, s, i, j)
    BY <1>6
  <2>2. /\ buf = HeadOn(items, i, j) /\ i \in 1..Len(items)
        /\ Len(buf) < IF j <= Len(items[i].head) THEN 3 ELSE 2
    BY <1>2, <1>4, <2>1 DEF AtLine
  <2>3. Len(HeadOn(items, i, j)) >= IF j <= Len(items[i].head) THEN 3 ELSE 2
    BY <2>2, MuchAhead
  <2> QED BY <1>2, <2>2, <2>3
<1>7. CASE AtContent(items, s, i)
  <2> DEFINE come == files[Len(files)].content
             c == items[i].content
             K == CrlfDashBoundary
  <2>1. /\ Put(come, buf) = ContentOn(items, i) /\ Len(buf) < Len(c) - Len(come) + Len(K)
        /\ i \in 1..Len(items) /\ files \in Seq(Stored)
    BY <1>2, <1>4, <1>7 DEF AtContent, Complete
  <2>2. come \in Seq(Signs)
    <3>1. Len(files) \in 1..Len(files)
      <4>1. Len(files) = i - s + 1 /\ i - s + 1 >= 1
        BY <1>1, <1>7 DEF AtContent
      <4> QED BY <4>1, <2>1
    <3>2. files[Len(files)] \in Stored
      BY <2>1, <3>1
    <3> QED BY <3>2 DEF Stored
  <2>3. Len(c) \in Nat /\ Len(K) \in Nat
    <3>1. c \in Seq(Signs) /\ K \in Seq(Signs)
      BY <2>1, FormTyped, FormMarks
    <3> QED BY <3>1
  <2>4. Len(ContentOn(items, i)) >= Len(c) + Len(K)
    BY <2>1, MuchAhead
  <2>5. Len(Put(come, buf)) = Len(come) + Len(buf) /\ Len(come) \in Nat
    BY <2>2, PutTogether
  <2> HIDE DEF come, c, K
  <2> DEFINE a == Len(come)
             b == Len(buf)
             d == Len(c)
             k == Len(K)
  <2>6. /\ a \in Nat /\ b \in Nat /\ d \in Nat /\ k \in Nat
        /\ a + b >= d + k /\ b < d - a + k
    BY <1>2, <2>1, <2>3, <2>4, <2>5
  <2> HIDE DEF a, b, d, k
  <2> QED BY ONLY <2>6
<1>8. CASE AtBoundary(items, s, i)
  <2>1. buf = EndOn(items, i) /\ Len(buf) < 2
    BY <1>2, <1>8 DEF AtBoundary
  <2>2. i \in 1..Len(items) \/ i = Len(items) + 1
    BY <1>1
  <2>3. Len(EndOn(items, i)) >= 2
    BY <2>2, MuchAhead
  <2> QED BY <1>2, <2>1, <2>3
<1> QED BY <1>3, <1>5, <1>6, <1>7, <1>8

\* The parts that have arrived are those of the form, from one to another.
LEMMA FilesAre ==
  ASSUME NEW items, Sendable(items), NEW s \in 1..Len(items), NEW i \in s..Len(items) + 1,
         Delivered(items, s, i)
  PROVE  files = Parts(SubSeq(items, s, i - 1)) /\ Len(SubSeq(items, s, i - 1)) = i - s
<1> DEFINE R == [head : Seq(Lines), content : Seq(Bytes)]
           part == SubSeq(items, s, i - 1)
           n == i - s
           Entry(item) == [name    |-> NameAmong(item.head, Len(item.head)),
                           content |-> item.content]
<1>1. Len(items) \in Nat /\ items \in Seq(R) /\ DOMAIN items = 1..Len(items)
  BY FormTyped
<1>2. part \in Seq(R) /\ Len(part) = n /\ \A k \in 1..n : part[k] = items[s + k - 1]
  <2>1. s \in 1..Len(items) + 1
    BY <1>1
  <2>2. Slice(items, s, i) = part
    BY DEF Slice
  <2>3. /\ Slice(items, s, i) \in Seq(R) /\ Len(Slice(items, s, i)) = i - s
        /\ \A k \in 1..i - s : Slice(items, s, i)[k] = items[s + k - 1]
    <3> HIDE DEF R
    <3> QED BY <1>1, <2>1, Sliced
  <2> HIDE DEF part, R
  <2> QED BY <2>2, <2>3
<1>3. /\ files \in Seq(Stored) /\ Len(files) = n
      /\ \A k \in 1..n : files[k] = Parts(items)[s + k - 1]
  BY DEF Delivered, Complete
<1>4. \A k \in 1..n : s + k - 1 \in DOMAIN items
  BY <1>1
<1>5. \A k \in DOMAIN items : Parts(items)[k] = Entry(items[k])
  BY DEF Parts
<1>6. Parts(part) = [k \in DOMAIN part |-> Entry(part[k])]
  BY DEF Parts
<1>7. DOMAIN part = 1..n
  <2> HIDE DEF part, R
  <2> QED BY <1>2
<1> HIDE DEF part, Entry, R
<1>8. files = [k \in 1..n |-> files[k]]
  BY <1>3
<1>9. \A k \in 1..n : files[k] = Entry(part[k])
  BY <1>2, <1>3, <1>4, <1>5
<1>10. files = [k \in 1..n |-> Entry(part[k])]
  <2> HIDE DEF n
  <2> QED BY ONLY <1>8, <1>9
<1> QED BY <1>2, <1>6, <1>7, <1>10 DEF part, n

\* What the situations of the parser have been stated for.
LEMMA FormArrived ==
  ASSUME NEW items, Sendable(items), FormInv(items)
  PROVE  PartsArrive(items)
<1> DEFINE N == Len(items)
           Arrived(s, i) == /\ cut \/ s = 1
                            /\ MayTake(items, s, i)
                            /\ files = Parts(SubSeq(items, s, i - 1))
                            /\ valid <=> s <= N /\ i = N + 1
<1> SUFFICES ASSUME Read PROVE \E s \in 1..N + 1 : \E i \in s..N + 1 : Arrived(s, i)
  BY DEF PartsArrive
<1>1. ~parsing /\ (refused \/ rest = << >>) /\ buf \in Seq(Signs)
  BY DEF Read, FormInv
<1>2. Len(items) \in Nat /\ Len(items) >= 1
  BY FormTyped
<1>3. MaxFiles \in Nat
  BY MultipartAssumption
<1>4. CASE ~refused /\ ~valid /\ Before(items)
  <2>1. buf = << >> /\ rest = << >> /\ files = << >>
    BY <1>1, <1>4 DEF Before
  <2>2. PICK x \in Seq(Signs) : Put(x, Ahead) = PartsOn(items, 1) /\ (~cut => x = << >>)
    BY <1>4 DEF Before
  <2>3. cut
    <3> SUFFICES ASSUME x = << >> PROVE FALSE
      BY <2>2
    <3>1. PartsOn(items, 1) = << >>
      BY <2>1, <2>2 DEF Ahead, Put
    <3>2. 1 \in 1..Len(items)
      BY <1>2
    <3>3. PartsOn(items, 1) = Put(DashBoundaryCrlf, HeadOn(items, 1, 1))
      BY <3>2, PartLaid, Zenon DEF Put
    <3>4. HeadOn(items, 1, 1) \in Seq(Signs)
      <4>1. items[1].head \in Seq(Lines)
        BY <3>2, FormTyped
      <4>2. 1 \in 1..Len(items[1].head) + 1
        BY <4>1
      <4> QED BY <3>2, <4>2, PartLaid
    <3>5. /\ DashBoundaryCrlf \in Seq(Signs) /\ Len(DashBoundaryCrlf) = Len(Boundary) + 4
          /\ Boundary \in Seq(Signs)
      BY FormMarks
    <3> DEFINE D == DashBoundaryCrlf
               h == HeadOn(items, 1, 1)
               t == PartsOn(items, 1)
    <3>6. Len(t) = Len(D) + Len(h) /\ Len(h) \in Nat
      <4>1. D \in Seq(Signs) /\ h \in Seq(Signs) /\ t = Put(D, h)
        BY <3>3, <3>4, <3>5
      <4> HIDE DEF D, h, t
      <4>2. Len(Put(D, h)) = Len(D) + Len(h)
        BY ONLY <4>1, PutTogether
      <4> QED BY <4>1, <4>2
    <3>7. Len(D) \in Nat /\ Len(D) >= 4
      <4>1. Len(Boundary) \in Nat
        BY <3>5
      <4> QED BY <3>5, <4>1
    <3> HIDE DEF D, h
    <3>8. Len(t) = 0
      BY <3>1
    <3> DEFINE a == Len(D)
               b == Len(h)
    <3>9. 0 = a + b /\ b \in Nat /\ a \in Nat /\ a >= 4
      BY ONLY <3>6, <3>7, <3>8, Zenon
    <3> HIDE DEF a, b
    <3> QED BY ONLY <3>9
  <2>4. N + 1 \in 1..N + 1 /\ N + 1 \in N + 1..N + 1 /\ ~(N + 1 <= N)
    BY <1>2
  <2>5. files = Parts(SubSeq(items, N + 1, (N + 1) - 1))
    <3>1. SubSeq(items, N + 1, (N + 1) - 1) = << >>
      <4>1. items \in Seq([head : Seq(Lines), content : Seq(Bytes)])
        BY FormTyped
      <4> QED BY <1>2, <4>1
    <3>2. Parts(<< >>) = << >>
      BY DEF Parts
    <3> QED BY <2>1, <3>1, <3>2
  <2>6. MayTake(items, N + 1, N + 1)
    <3>1. N + 1..(N + 1) - 1 = {} /\ (N + 1) - (N + 1) <= MaxFiles
      BY <1>2, <1>3
    <3> QED BY <2>4, <3>1 DEF MayTake
  <2>7. Arrived(N + 1, N + 1)
    BY <1>4, <2>3, <2>4, <2>5, <2>6
  <2> HIDE DEF Arrived, N
  <2> QED BY <2>4, <2>7
<1>5. ASSUME NEW s \in 1..N, ~cut => s = 1, NEW i \in s..N + 1,
             Delivered(items, s, i), valid <=> i = N + 1,
             i = N + 1 \/ Refusable(items, s, i)
      PROVE  \E f \in 1..N + 1 : \E n \in f..N + 1 : Arrived(f, n)
  <2>1. files = Parts(SubSeq(items, s, i - 1))
    BY <1>5, FilesAre
  <2>2. /\ s \in Nat /\ i \in Nat /\ s <= N /\ s \in 1..N + 1 /\ i \in s..N + 1 /\ N \in Nat
        /\ i <= N + 1
    BY <1>2
  <2>3. MayTake(items, s, i)
    <3>1. i - s <= MaxFiles /\ \A k \in 1..i - s : Good(items[s + k - 1])
      BY <1>5 DEF Delivered, Complete
    <3>2. ASSUME NEW k \in s..i - 1 PROVE Good(items[k])
      <4> DEFINE m == k - s + 1
      <4>1. m \in 1..i - s /\ s + m - 1 = k
        BY <2>2
      <4> HIDE DEF m
      <4> QED BY <3>1, <4>1
    <3>3. i <= N => Refusable(items, s, i)
      <4>1. i <= N => i # N + 1
        BY <2>2
      <4> QED BY <1>5, <4>1
    <3> QED BY <3>1, <3>2, <3>3 DEF MayTake, Refusable
  <2>4. Arrived(s, i)
    BY <1>5, <2>1, <2>2, <2>3
  <2> HIDE DEF Arrived, N
  <2> QED BY <2>2, <2>4
<1>6. ASSUME NEW s \in 1..Len(items), ~cut => s = 1,
             Reading(items, s) \/ Over(items, s) \/ Stopped(items, s)
      PROVE  \E f \in 1..N + 1 : \E n \in f..N + 1 : Arrived(f, n)
  <2> HIDE DEF Arrived
  <2>1. ~Reading(items, s)
    <3> SUFFICES ASSUME Reading(items, s) PROVE FALSE
      OBVIOUS
    <3>1. rest = << >>
      BY <1>1 DEF Reading
    <3> QED BY <1>1, <3>1, ReadingGoesOn
  <2>2. CASE Over(items, s)
    <3> DEFINE i == Len(items) + 1
    <3>1. i \in s..Len(items) + 1 /\ i = Len(items) + 1
      BY <1>2
    <3>2. Delivered(items, s, i) /\ valid
      BY <2>2 DEF Over
    <3> HIDE DEF i
    <3> QED BY <1>5, <1>6, <3>1, <3>2
  <2>3. CASE Stopped(items, s)
    <3>1. PICK i \in s..Len(items) : Delivered(items, s, i) /\ Refusable(items, s, i)
      BY <2>3 DEF Stopped
    <3>2. i \in s..Len(items) + 1 /\ i # Len(items) + 1 /\ ~valid
      BY <1>2, <2>3 DEF Stopped
    <3> QED BY <1>5, <1>6, <3>1, <3>2
  <2> QED BY <1>6, <2>1, <2>2, <2>3
<1> QED BY <1>4, <1>6 DEF FormInv

\* A form is sent from its beginning.
LEMMA FormStarts ==
  ASSUME NEW items, Sendable(items), MultipartInit(Serialize(items))
  PROVE  FormInv(items)
<1>1. /\ rest = PartsOn(items, 1) /\ buf = << >> /\ state = 0 /\ ~refused /\ ~valid /\ files = << >>
      /\ cut = FALSE
  BY DEF MultipartInit, Serialize, PartsOn
<1>2. PartsOn(items, 1) \in Seq(Signs)
  <2>1. 1 \in 1..Len(items) + 1
    BY FormTyped
  <2> QED BY <2>1, PartsLaid
<1>3. << >> \in Seq(Signs) /\ Put(<< >>, PartsOn(items, 1)) = PartsOn(items, 1)
  <2> DEFINE t == PartsOn(items, 1)
  <2>1. t \in Seq(Signs)
    BY <1>2
  <2> HIDE DEF t
  <2>2. << >> \in Seq(Signs) /\ Put(<< >>, t) = t
    BY <2>1, NothingFirst, Zenon DEF Put
  <2> QED BY <2>2 DEF t
<1>4. Put(<< >>, Ahead) = PartsOn(items, 1)
  BY <1>1, <1>3, Zenon DEF Ahead
<1>5. Before(items)
  BY <1>1, <1>3, <1>4 DEF Before
<1> QED BY <1>1, <1>2, <1>3, <1>5 DEF FormInv

\* Whatever the parser does, its situation remains one of these.
LEMMA FormStep ==
  ASSUME NEW items, Sendable(items), FormInv(items), [MultipartNext]_multipartVars
  PROVE  FormInv(items)'
<1>1. CASE Deliver
  BY <1>1, FormDeliver
<1>2. CASE Emptied
  BY <1>2, FormEmptied
<1>3. CASE Preamble
  BY <1>3, FormPreamble
<1>4. CASE NewEntry
  BY <1>4, FormNewEntry
<1>5. CASE Headers
  BY <1>5, FormHeaders
<1>6. CASE Body
  BY <1>6, FormBody
<1>7. CASE BoundaryEnd
  BY <1>7, FormBoundaryEnd
<1>8. CASE UNCHANGED multipartVars
  <2>1. UNCHANGED <<rest, buf, state, parsing, refused, valid, named, files, cut>>
    BY <1>8 DEF multipartVars, parser
  <2>2. Before(items) => Before(items)'
    BY <2>1 DEF Before, Ahead
  <2>3. \A s, i : Delivered(items, s, i) => Delivered(items, s, i)'
    BY <2>1, PartsKept
  <2>4. \A s : Reading(items, s) => Reading(items, s)'
    <3>1. \A s, i : AtEntry(items, s, i) => AtEntry(items, s, i)'
      BY <2>1, <2>3 DEF AtEntry, Ahead
    <3>2. \A s, i, j : AtLine(items, s, i, j) => AtLine(items, s, i, j)'
      BY <2>1, <2>3 DEF AtLine, Ahead
    <3>3. \A s, i : AtContent(items, s, i) => AtContent(items, s, i)'
      BY <2>1, PartsKept DEF AtContent, Ahead
    <3>4. \A s, i : AtBoundary(items, s, i) => AtBoundary(items, s, i)'
      BY <2>1, <2>3 DEF AtBoundary, Ahead
    <3> QED BY <2>1, <3>1, <3>2, <3>3, <3>4 DEF Reading
  <2>5. \A s : Over(items, s) => Over(items, s)'
    BY <2>1, <2>3 DEF Over, Ahead
  <2>6. \A s : Stopped(items, s) => Stopped(items, s)'
    BY <2>1, <2>3 DEF Stopped
  <2> QED BY <2>1, <2>2, <2>4, <2>5, <2>6 DEF FormInv
<1> QED BY <1>1, <1>2, <1>3, <1>4, <1>5, <1>6, <1>7, <1>8 DEF MultipartNext

\* Forms arrive (MultipartParser's PartsArrive): a form of any number of parts with
\* any lines and contents, cut into any pieces, is stored part by part in order, as
\* far as the parser and the server accept its parts; only if a piece ends inside the
\* first boundary line are parts missing, those before a later boundary.
THEOREM PartsAlwaysArrive ==
  ASSUME NEW CONSTANT items, Sendable(items)
  PROVE  MultipartInit(Serialize(items)) /\ [][MultipartNext]_multipartVars => []PartsArrive(items)
<1>1. MultipartInit(Serialize(items)) => FormInv(items)
  BY FormStarts
<1>2. FormInv(items) /\ [MultipartNext]_multipartVars => FormInv(items)'
  BY FormStep
<1>3. FormInv(items) => PartsArrive(items)
  BY FormArrived
<1> QED BY <1>1, <1>2, <1>3, PTL

\* One of the forms is being read.
FormRead == kind = "form" => \E form \in Forms : input = form /\ FormInv(form)

\* The forms of MCParts arrive, but for leading parts when a piece ends inside the
\* first boundary line (FormsArrive).
THEOREM FormsAlwaysArrive == Spec => []FormsArrive
<1>1. Init => FormRead
  <2> SUFFICES ASSUME Init, kind = "form" PROVE \E form \in Forms : input = form /\ FormInv(form)
    BY DEF FormRead
  <2>1. input \in Forms /\ MultipartInit(Serialize(input))
    BY DEF Init
  <2>2. PICK form \in Forms : input = form
    BY <2>1
  <2>3. MultipartInit(Serialize(form)) /\ Sendable(form)
    BY <2>1, <2>2, FormsAssumption
  <2> QED BY <2>2, <2>3, FormStarts
<1>2. FormRead /\ [Next]_vars => FormRead'
  <2> SUFFICES ASSUME FormRead, [Next]_vars, kind' = "form"
               PROVE  \E form \in Forms : input' = form /\ FormInv(form)'
    BY DEF FormRead
  <2>1. kind = "form" /\ UNCHANGED <<kind, input>> /\ [MultipartNext]_multipartVars
    BY DEF Next, Only, vars
  <2>2. PICK form \in Forms : input = form /\ FormInv(form)
    BY <2>1 DEF FormRead
  <2>3. Sendable(form)
    BY FormsAssumption
  <2>4. FormInv(form)'
    BY <2>1, <2>2, <2>3, FormStep
  <2> QED BY <2>1, <2>2, <2>4
<1>3. FormRead => FormsArrive
  <2> SUFFICES ASSUME FormRead, kind = "form" PROVE PartsArrive(input)
    BY DEF FormsArrive
  <2>1. PICK form \in Forms : input = form /\ FormInv(form)
    BY DEF FormRead
  <2>2. PartsArrive(form)
    BY <2>1, FormsAssumption, FormArrived
  <2> QED BY <2>1, <2>2
<1> QED BY <1>1, <1>2, <1>3, PTL DEF Spec

-----------------------------------------------------------------------------
(***************************************************************************)
(* Texts.  What the states of MCParts hold are texts that the theorems of  *)
(* TextProofs are about.                                                   *)
(***************************************************************************)

\* Every header that a state holds is honoured or refused.
THEOREM RangesAreServed == Spec => []RangesServed
<1> DEFINE HeaderGiven == kind = "ranges" =>
             input \in [header : Seq(RangeRecords), length : Nat]
<1>1. Init => HeaderGiven
  <2> SUFFICES ASSUME Init, kind = "ranges"
      PROVE  input \in [header : Seq(RangeRecords), length : Nat]
    OBVIOUS
  <2>1. input \in Ranging \cup Heavy
    BY DEF Init
  <2>2. ASSUME NEW i \in Ranging PROVE i \in [header : Seq(RangeRecords), length : Nat]
    <3> DEFINE R == [first : {Absent} \cup 0..4, last : {Absent} \cup 0..4]
    <3>1. R \subseteq RangeRecords
      BY DEF RangeRecords
    <3>2. i \in [header : Upto(2, R), length : 0..4]
      BY DEF Ranging
    <3> HIDE DEF R
    <3>3. PICK m \in 0..2 : i.header \in [1..m -> R]
      BY <3>2 DEF Upto
    <3>4. i.header \in Seq(RangeRecords)
      BY <3>1, <3>3, TuplesAreSequences
    <3> QED BY <3>2, <3>4
  <2>3. ASSUME NEW i \in Heavy PROVE i \in [header : Seq(RangeRecords), length : Nat]
    <3> DEFINE R == [first : 0..3, last : {3, 6, Absent}]
    <3>1. R \subseteq RangeRecords
      BY DEF RangeRecords
    <3>2. i \in [header : [1..4 -> R], length : {7}]
      BY DEF Heavy
    <3> HIDE DEF R
    <3>3. i.header \in Seq(RangeRecords)
      BY <3>1, <3>2, TuplesAreSequences
    <3> QED BY <3>2, <3>3
  <2> QED BY <2>1, <2>2, <2>3
<1>2. HeaderGiven /\ [Next]_vars => HeaderGiven'
  BY DEF Next, Only, vars
<1>3. HeaderGiven => RangesServed
  <2> SUFFICES ASSUME HeaderGiven, kind = "ranges"
      PROVE  RangesAreHonoured(input.header, 200, input.length)
    BY DEF RangesServed
  <2>1. input.header \in Seq(RangeRecords) /\ input.length \in Nat
    OBVIOUS
  <2> QED BY <2>1, EveryRangeIsHonoured
<1> QED BY <1>1, <1>2, <1>3, PTL DEF Spec

\* The parameters of every query that a state holds survive.
THEOREM QueriesReadBack == Spec => []QueriesSurvive
<1> DEFINE K == {"2", "6"}
           R == [key : Seq(K), value : Seq(Characters)]
           QueryGiven == kind = "query" => input \in Seq(R)
<1>1. Init => QueryGiven
  <2> SUFFICES ASSUME Init, kind = "query" PROVE input \in Seq(R)
    OBVIOUS
  <2>1. input \in Queries
    BY DEF Init
  <2>2. Keys \subseteq Seq(K)
    BY DEF Keys
  <2>3. ASSUME NEW n \in Nat, NEW texts \in SUBSET Upto(n, Characters)
        PROVE  [key : Keys, value : texts] \subseteq R
    <3>1. ASSUME NEW t \in Upto(n, Characters) PROVE t \in Seq(Characters)
      <4>1. PICK m \in 0..n : t \in [1..m -> Characters]
        BY DEF Upto
      <4>2. m \in Nat /\ Characters \in SUBSET Characters
        OBVIOUS
      <4> HIDE DEF K, R
      <4> QED BY <4>1, <4>2, TuplesAreSequences
    <3> HIDE DEF K
    <3> QED BY <2>2, <3>1
  <2> DEFINE One == [key : Keys, value : Upto(3, Characters)]
             Two == [key : Keys, value : Upto(1, Characters)]
  <2>4. One \in SUBSET R /\ Two \in SUBSET R
    <3> HIDE DEF R
    <3> QED BY <2>3
  <2>5. input \in Upto(1, One) \/ input \in [1..2 -> Two]
    BY <2>1 DEF Queries
  <2> HIDE DEF One, Two, R
  <2>6. CASE input \in Upto(1, One)
    <3>1. PICK m \in 0..1 : input \in [1..m -> One]
      BY <2>6 DEF Upto
    <3>2. m \in Nat
      OBVIOUS
    <3> QED BY <2>4, <3>1, <3>2, TuplesAreSequences
  <2>7. CASE input \in [1..2 -> Two]
    BY <2>4, <2>7, TuplesAreSequences
  <2> QED BY <2>5, <2>6, <2>7
<1>2. QueryGiven /\ [Next]_vars => QueryGiven'
  BY DEF Next, Only, vars
<1>3. QueryGiven => QueriesSurvive
  <2> SUFFICES ASSUME QueryGiven, kind = "query" PROVE ParametersSurvive(input)
    BY DEF QueriesSurvive
  <2>1. \A c \in Characters : Encodable(c)
    BY CharactersAssumption DEF Encodable
  <2>2. input \in Seq(R)
    OBVIOUS
  <2> HIDE DEF K
  <2> QED BY <2>1, <2>2, ParametersAlwaysSurvive
<1> HIDE DEF QueryGiven
<1> QED BY <1>1, <1>2, <1>3, PTL DEF Spec

\* The mounted directories of the instance are ones that the theorem is about.
LEMMA MountsAreMounts ==
  ASSUME NEW C, "/" \in C, "a" \in C
  PROVE  \A i \in DOMAIN Mounts :
           Mounts[i].point \in Seq(C) /\ Mounts[i].dir \in Seq(Seq(C) \cup {"d", "e"})
<1> DEFINE E == Seq(C) \cup {"d", "e"}
<1>1. "d" \in E /\ "e" \in E
  OBVIOUS
<1> HIDE DEF E
<1>2. /\ <<"/", "a">> \in Seq(C) /\ <<"/">> \in Seq(C)
      /\ <<"d">> \in Seq(E) /\ <<"d", "e">> \in Seq(E)
  BY <1>1
<1>3. DOMAIN Mounts = {1, 2}
  BY DEF Mounts
<1>4. /\ Mounts[1].point = <<"/", "a">> /\ Mounts[1].dir = <<"d">>
      /\ Mounts[2].point = <<"/">> /\ Mounts[2].dir = <<"d", "e">>
  BY DEF Mounts
<1> QED BY <1>2, <1>3, <1>4 DEF E

\* Routes take the paths that fit them component by component, mounted files stay
\* inside their directory and a program finds its own, in every state.
THEOREM PathsAlwaysAgree == Spec => []PathsAgree
<1> DEFINE C == {"/", "a", "."}
           P == {"/", "\\", "a"}
           T == {"/", ":", "a"}
           U == {"/", "a", "b"}
           V == {"/", ":", "a", "b"}
           PathGiven == /\ kind = "file" => input \in Seq(C)
                        /\ kind = "program" => input \in Seq(P)
                        /\ kind = "route" => input.pattern \in Seq(V) /\ input.path \in Seq(V)
<1>1. ASSUME NEW S, NEW n \in Nat PROVE Upto(n, S) \subseteq Seq(S)
  <2> SUFFICES ASSUME NEW s \in Upto(n, S) PROVE s \in Seq(S)
    OBVIOUS
  <2>1. PICK m \in 0..n : s \in [1..m -> S]
    BY DEF Upto
  <2> QED BY <2>1, TuplesAreSequences
<1>2. ASSUME NEW S, "/" \in S, NEW n \in Nat PROVE Absolute(n, S) \subseteq Seq(S)
  <2> SUFFICES ASSUME NEW s \in Upto(n, S) PROVE <<"/">> \o s \in Seq(S)
    BY DEF Absolute
  <2>1. s \in Seq(S)
    BY <1>1
  <2> QED BY <1>2, <2>1
<1>3. Init => PathGiven
  <2> SUFFICES ASSUME Init PROVE PathGiven
    OBVIOUS
  <2>1. /\ kind = "file" => input \in Absolute(5, C)
        /\ kind = "program" => input \in Upto(5, P)
        /\ kind = "route" => input \in [pattern : Absolute(4, T), path : Absolute(4, U)]
    BY DEF Init, Patterns
  <2>2. "/" \in C /\ "/" \in T /\ "/" \in U
    OBVIOUS
  <2>3. T \subseteq V /\ U \subseteq V
    OBVIOUS
  <2> HIDE DEF C, P, T, U, V
  <2>4. Absolute(5, C) \subseteq Seq(C) /\ Upto(5, P) \subseteq Seq(P)
    BY <1>1, <1>2, <2>2
  <2>5. Absolute(4, T) \subseteq Seq(V) /\ Absolute(4, U) \subseteq Seq(V)
    <3>1. Absolute(4, T) \subseteq Seq(T) /\ Absolute(4, U) \subseteq Seq(U)
      BY <1>2, <2>2
    <3>2. Seq(T) \subseteq Seq(V) /\ Seq(U) \subseteq Seq(V)
      BY <2>3
    <3> QED BY <3>1, <3>2
  <2> QED BY <2>1, <2>4, <2>5
<1>4. PathGiven /\ [Next]_vars => PathGiven'
  <2> HIDE DEF C, P, V
  <2> QED BY DEF Next, Only, vars
<1>5. PathGiven => PathsAgree
  <2> SUFFICES ASSUME PathGiven PROVE PathsAgree
    OBVIOUS
  <2>1. ASSUME kind = "file" PROVE FilesStayInside(Mounts, input)
    <3>1. input \in Seq(C) /\ "/" \in C /\ "a" \in C /\ Separator \in C
      BY <2>1 DEF Separator
    <3> HIDE DEF C
    <3> DEFINE E == Seq(C) \cup {"d", "e"}
    <3>2. \A i \in DOMAIN Mounts : Mounts[i].point \in Seq(C) /\ Mounts[i].dir \in Seq(E)
      BY <3>1, MountsAreMounts
    <3>3. Seq(C) \subseteq E
      OBVIOUS
    <3> HIDE DEF E
    <3> QED BY <3>1, <3>2, <3>3, MountedFilesStayInside
  <2>2. ASSUME kind = "program" PROVE ProgramIsFound(input)
    <3> HIDE DEF P
    <3> QED BY <2>2, ProgramLooksBesideItself
  <2>3. ASSUME kind = "route" PROVE RoutesByComponent(input.pattern, input.path)
    <3> HIDE DEF V
    <3> QED BY <2>3, RoutesGoByComponent
  <2> QED BY <2>1, <2>2, <2>3 DEF PathsAgree
<1> QED BY <1>3, <1>4, <1>5, PTL DEF Spec
=============================================================================
