----------------------------- MODULE StoreProofs ----------------------------
(***************************************************************************)
(* Proofs about VAppStore and Preload: what is in non-volatile memory is   *)
(* whole, names and keys are unique, masks and HMAC files are used as they *)
(* should be, for any number of V-Apps, entries, slots, pages and losses   *)
(* of power.                                                               *)
(***************************************************************************)
EXTENDS Preload, FiniteSetTheorems, SequenceTheorems, WellFoundedInduction, TLAPS

-----------------------------------------------------------------------------
(* The inductive invariant of the store.                                       *)

Cells == Entries \cup {AuthKey}

WholeEntry == [vapp : Vapps, slots : [Slots -> Data \cup {Zero}]]

AnyEntry == [vapp : Vapps \cup {NoVapp, Garbage}, slots : [Slots -> Data \cup {Zero, Garbage}]]

\* The values that an operation may make valid.
WholeIn(c) == IF c = AuthKey THEN Keys ELSE WholeEntry

Whole(c) == nvm[c].value \in WholeIn(c)

NvmOK ==
  /\ nvm \in [Cells -> [flag : BOOLEAN, value : AnyEntry \cup Keys \cup {Zero, Garbage}]]
  /\ \A i \in Entries : nvm[i].value \in AnyEntry
  /\ \A c \in Cells : nvm[c].flag => Whole(c)

\* No other entry has the name of the V-App in entry value v.
NewInPlace(c, v) == c # AuthKey => \A j \in Initialized : j # c => NameIn(j) # NameOf[v.vapp]

\* What is left to write, and what it may assume of the cell it writes to.
Initializing(c, v) ==
  /\ c \in Cells /\ v \in WholeIn(c)
  /\ ~nvm[c].flag /\ NewInPlace(c, v)
  /\ writes = Initialize(c, v)

Updating(c, v) ==
  /\ c \in Entries /\ v \in WholeIn(c)
  /\ NewInPlace(c, v)
  /\ writes = Update(c, v)

Validating(c) ==
  /\ c \in Cells /\ Whole(c)
  /\ ~nvm[c].flag /\ NewInPlace(c, nvm[c].value)
  /\ writes = <<Write(c, "flag", TRUE)>>

ClearsFlag(w) == w.cell \in Entries /\ w = Write(w.cell, "flag", FALSE)

ClearsValue(w) == w.cell \in Entries /\ w = Write(w.cell, "value", VAppEntry(NoVapp))

Clearing ==
  /\ Len(writes) \in Nat /\ writes = [k \in 1 .. Len(writes) |-> writes[k]]
  /\ \A k \in 1 .. Len(writes) :
       \/ ClearsFlag(writes[k])
       \/ /\ ClearsValue(writes[k])
          /\ k = 1 => ~nvm[writes[k].cell].flag
          /\ k > 1 => writes[k - 1] = Write(writes[k].cell, "flag", FALSE)

\* uninstall_all clears the value of an entry right after its flag.
Paired ==
  \A k \in 1 .. Len(writes) :
    ClearsFlag(writes[k]) =>
      k < Len(writes) /\ writes[k + 1] = Write(writes[k].cell, "value", VAppEntry(NoVapp))

WritesOK ==
  \/ \E c \in Cells : \E v \in WholeIn(c) : Initializing(c, v)
  \/ \E c \in Entries : \E v \in WholeIn(c) : Updating(c, v)
  \/ \E c \in Cells : Validating(c)
  \/ Clearing

ReadForm ==
  /\ vm.parts = <<>> \/ vm.parts = <<vm.parts[1]>>
  /\ vm = [at |-> "read", vapp |-> vm.vapp, slot |-> vm.slot, entry |-> vm.entry, parts |-> vm.parts]

VmOK ==
  /\ vm \in {Off, Home} \/ vm.at \in {"running", "read", "write", "preload"}
  /\ vm.at = "running" => vm.vapp \in Vapps /\ vm = Running(vm.vapp)
  /\ vm.at \in {"read", "write"} =>
       vm.vapp \in Vapps /\ vm.slot \in Slots /\ vm.entry \in Entries
  /\ vm.at = "write" => vm.data \in Data
  /\ vm.at = "read" => ReadForm

\* While the VM runs, its key is there or is being written; a key that was used stays.
KeyOK ==
  /\ nvm[AuthKey].flag => Idle \/ writes[1].cell # AuthKey
  /\ vm # Off => nvm[AuthKey].flag \/ (~Idle /\ writes[1].cell = AuthKey)
  /\ usedKeys # {} => nvm[AuthKey].flag /\ usedKeys = {nvm[AuthKey].value}

StoreInv == NvmOK /\ WritesOK /\ VmOK /\ KeyOK /\ OneEntryPerName
-----------------------------------------------------------------------------
(* Facts about the operators of the store.                                     *)

LEMMA MinIsIn ==
  ASSUME NEW S, S \subseteq Nat, S # {}
  PROVE  Min(S) \in S /\ \A y \in S : Min(S) <= y
<1>1. PICK x \in S : \A y \in S : ~ (<<y, x>> \in OpToRel(<, Nat))
  BY NatLessThanWellFounded, WFMin
<1>2. ASSUME NEW y \in S PROVE x <= y
  <2>1. <<y, x>> \notin {ss \in Nat \X Nat : ss[1] < ss[2]}
    BY <1>1, <1>2, Zenon DEF OpToRel
  <2> QED
    BY <1>2, <2>1, SMT
<1> QED
  BY <1>2 DEF Min

LEMMA AppendToOne ==
  ASSUME NEW a, NEW b
  PROVE  Append(<<a>>, b) = <<a, b>>
<1>1. <<a>> \in Seq({a, b}) /\ Len(<<a>>) = 1
  OBVIOUS
<1>2. PICK t : t = Append(<<a>>, b)
  OBVIOUS
<1>3. t \in Seq({a, b}) /\ Len(t) = 2 /\ t[1] = a /\ t[2] = b
  BY <1>1, <1>2
<1>4. t = <<a, b>>
  BY <1>3
<1> QED
  BY <1>2, <1>4

LEMMA TailsOfTuples ==
  ASSUME NEW a, NEW b, NEW c
  PROVE  Tail(<<a, b>>) = <<b>> /\ Tail(<<a, b, c>>) = <<b, c>>
<1>1. <<a, b, c>> \in Seq({a, b, c}) /\ <<b, c>> \in Seq({a, b, c})
  OBVIOUS
<1>2. /\ Tail(<<a, b, c>>) \in Seq({a, b, c}) /\ Len(Tail(<<a, b, c>>)) = 2
      /\ Tail(<<a, b, c>>)[1] = b /\ Tail(<<a, b, c>>)[2] = c
  BY <1>1, HeadTailProperties
<1> QED
  BY <1>1, <1>2, SeqEqual

LEMMA OneWrite ==
  ASSUME NEW w
  PROVE  Head(<<w>>) = w /\ Tail(<<w>>) = <<>> /\ <<w>>[1] = w
OBVIOUS

LEMMA TailShifts ==
  ASSUME NEW s, NEW n \in Nat, n # 0, Len(s) = n, s = [k \in 1 .. n |-> s[k]]
  PROVE  Head(s) = s[1] /\ Tail(s) = [k \in 1 .. n - 1 |-> s[k + 1]] /\ Len(Tail(s)) = n - 1
<1>1. s \in Seq({s[k] : k \in 1 .. n}) /\ s # <<>>
  OBVIOUS
<1>2. Tail(s) = [k \in 1 .. n - 1 |-> s[k + 1]] /\ Head(s) = s[1]
  BY <1>1
<1> QED
  BY <1>2

LEMMA WritesLists ==
  ASSUME NEW c, NEW v
  PROVE  /\ Head(Initialize(c, v)) = Write(c, "value", v)
         /\ Tail(Initialize(c, v)) = <<Write(c, "flag", TRUE)>>
         /\ Head(Update(c, v)) = Write(c, "flag", FALSE)
         /\ Tail(Update(c, v)) = Initialize(c, v)
         /\ Initialize(c, v) # <<>> /\ Update(c, v) # <<>>
         /\ Initialize(c, v)[1].cell = c /\ Update(c, v)[1].cell = c
<1>1. /\ Head(Initialize(c, v)) = Write(c, "value", v)
      /\ Head(Update(c, v)) = Write(c, "flag", FALSE)
      /\ Initialize(c, v) # <<>> /\ Update(c, v) # <<>>
  BY DEF Initialize, Update
<1>2. /\ Tail(Initialize(c, v)) = <<Write(c, "flag", TRUE)>>
      /\ Tail(Update(c, v)) = Initialize(c, v)
  BY TailsOfTuples, Zenon DEF Initialize, Update
<1>3. Initialize(c, v)[1].cell = c /\ Update(c, v)[1].cell = c
  BY DEF Initialize, Update, Write
<1> QED
  BY <1>1, <1>2, <1>3

LEMMA NamesOfWhole ==
  ASSUME NvmOK, NEW i \in Initialized
  PROVE  /\ i \in Entries /\ i # AuthKey
         /\ nvm[i].value \in WholeEntry
         /\ nvm[i].value.vapp \in Vapps /\ NameIn(i) = NameOf[nvm[i].value.vapp]
<1>1. i \in Entries /\ nvm[i].flag /\ i # AuthKey
  BY VAppStoreAssumption DEF Initialized, IsInitialized
<1>2. nvm[i].value \in WholeEntry
  BY <1>1 DEF NvmOK, Cells, Whole, WholeIn
<1> QED
  BY <1>1, <1>2 DEF WholeEntry, NameIn

LEMMA EntryIsWhole ==
  ASSUME NEW m \in Vapps, NEW i \in Entries
  PROVE  VAppEntry(m) \in WholeIn(i) /\ VAppEntry(m).vapp = m
BY VAppStoreAssumption DEF VAppEntry, WholeIn, WholeEntry

\* Writing a field of a cell leaves the others as they are.
LEMMA CellWritten ==
  ASSUME NvmOK, NEW c \in Cells, NEW v, NEW b
  PROVE  LET e == [nvm EXCEPT ![c].value = v]
             f == [nvm EXCEPT ![c].flag = b]
         IN /\ e[c].flag = nvm[c].flag /\ e[c].value = v
            /\ f[c].flag = b /\ f[c].value = nvm[c].value
            /\ \A d \in Cells : d # c => e[d] = nvm[d] /\ f[d] = nvm[d]
            /\ b \in BOOLEAN => f \in [Cells -> [flag : BOOLEAN, value : AnyEntry \cup Keys \cup {Zero, Garbage}]]
            /\ v \in AnyEntry \cup Keys \cup {Zero, Garbage} =>
                 e \in [Cells -> [flag : BOOLEAN, value : AnyEntry \cup Keys \cup {Zero, Garbage}]]
BY DEF NvmOK

-----------------------------------------------------------------------------
(* The invariant of the store is inductive.                                    *)

LEMMA StoreInvInit == Init => StoreInv
<1> SUFFICES ASSUME Init PROVE StoreInv
  OBVIOUS
<1>1. \A c \in Cells : ~nvm[c].flag
  BY DEF Init, Cells
<1>2. Initialized = {}
  BY <1>1 DEF Initialized, IsInitialized, Cells
<1>3. VAppEntry(NoVapp) \in AnyEntry
  BY DEF VAppEntry, AnyEntry
<1>4. NvmOK
  BY <1>1, <1>3, VAppStoreAssumption DEF Init, NvmOK, Cells
<1>5. Clearing
  BY DEF Init, Clearing
<1> QED
  BY <1>1, <1>2, <1>4, <1>5
     DEF Init, StoreInv, WritesOK, VmOK, KeyOK, OneEntryPerName, Off, Home, Cells, Idle

\* A step that leaves the memory and the writes under way keeps what is said of them.
LEMMA MemoryUnchanged ==
  ASSUME StoreInv, UNCHANGED <<nvm, writes>>
  PROVE  NvmOK' /\ WritesOK' /\ OneEntryPerName'
BY DEF StoreInv, NvmOK, WritesOK, OneEntryPerName, Initializing, Updating, Validating, Clearing,
       NewInPlace, Initialized, IsInitialized, NameIn, Whole
LEMMA NvmUnchanged ==
  ASSUME StoreInv, UNCHANGED nvm
  PROVE  NvmOK' /\ OneEntryPerName'
BY DEF StoreInv, NvmOK, OneEntryPerName, Initialized, IsInitialized, NameIn, Whole

\* Operations begin with the writes of one cell, or with those of uninstall_all.
LEMMA BeginInitialize ==
  ASSUME StoreInv, UNCHANGED nvm, NEW c \in Cells, NEW v \in WholeIn(c),
         ~nvm[c].flag, NewInPlace(c, v), writes' = Initialize(c, v)
  PROVE  WritesOK' /\ Initializing(c, v)'
<1>1. NewInPlace(c, v)'
  BY DEF NewInPlace, Initialized, IsInitialized, NameIn
<1>2. Initializing(c, v)'
  BY <1>1 DEF Initializing
<1> QED
  BY <1>2 DEF WritesOK

LEMMA BeginUpdate ==
  ASSUME StoreInv, UNCHANGED nvm, NEW c \in Entries, NEW v \in WholeIn(c),
         NewInPlace(c, v), writes' = Update(c, v)
  PROVE  WritesOK' /\ Updating(c, v)'
<1>1. NewInPlace(c, v)'
  BY DEF NewInPlace, Initialized, IsInitialized, NameIn
<1>2. Updating(c, v)'
  BY <1>1 DEF Updating
<1> QED
  BY <1>2 DEF WritesOK

LEMMA BeginNothing ==
  ASSUME writes' = <<>>
  PROVE  WritesOK'
BY DEF WritesOK, Clearing

LEMMA BootKeeps ==
  ASSUME StoreInv, NEW k \in Keys, Boot(k)
  PROVE  StoreInv'
<1>1. UNCHANGED nvm /\ vm' = Home /\ Idle /\ UNCHANGED usedKeys
  BY DEF Boot
<1>2. NvmOK' /\ OneEntryPerName'
  BY <1>1, NvmUnchanged
<1>3. VmOK'
  BY <1>1 DEF VmOK, Home
<1>4. CASE nvm[AuthKey].flag
  <2>1. writes' = <<>>
    BY <1>4 DEF Boot, Begin, IsInitialized
  <2>2. KeyOK'
    BY <1>1, <1>4, <2>1 DEF StoreInv, KeyOK, Idle
  <2> QED
    BY <1>2, <1>3, <2>1, <2>2, BeginNothing DEF StoreInv
<1>5. CASE ~nvm[AuthKey].flag
  <2>1. writes' = Initialize(AuthKey, k)
    BY <1>5 DEF Boot, Begin, IsInitialized
  <2>2. WritesOK'
    BY <1>1, <1>5, <2>1, BeginInitialize DEF Cells, WholeIn, NewInPlace
  <2>3. KeyOK'
    BY <1>1, <1>5, <2>1, WritesLists DEF StoreInv, KeyOK, Idle
  <2> QED
    BY <1>2, <1>3, <2>2, <2>3 DEF StoreInv
<1> QED
  BY <1>4, <1>5

\* An operation on an entry does not touch the key.
LEMMA KeyKept ==
  ASSUME StoreInv, Idle, UNCHANGED <<nvm, usedKeys>>,
         vm # Off, writes' = <<>> \/ writes'[1].cell # AuthKey
  PROVE  KeyOK'
BY DEF StoreInv, KeyOK, Idle

\* VAppStore::register, of handler_register_vapp and of the client's registrations.
LEMMA RegisterKeeps ==
  ASSUME StoreInv, Idle, vm = Home, NEW m \in Vapps, Register(m), UNCHANGED <<nvm, vm, usedKeys>>
  PROVE  /\ StoreInv'
         /\ \E i \in Entries :
              \/ Updating(i, VAppEntry(m))' /\ nvm[i].flag /\ NameIn(i) = NameOf[m]
              \/ Initializing(i, VAppEntry(m))'
<1>1. NvmOK' /\ OneEntryPerName'
  BY NvmUnchanged
<1>2. VmOK'
  BY DEF StoreInv, VmOK, ReadForm
<1>3. vm # Off
  BY DEF Home, Off
<1>4. CASE FindByName(m) # {}
  <2>0. PICK i : i = Min(FindByName(m))
    OBVIOUS
  <2>1. i \in FindByName(m)
    BY <1>4, <2>0, MinIsIn, VAppStoreAssumption DEF FindByName, Initialized
  <2>2. i \in Initialized /\ NameIn(i) = NameOf[m]
    BY <2>1 DEF FindByName
  <2>3. writes' = Update(i, VAppEntry(m))
    BY <1>4, <2>0 DEF Register, Begin
  <2>4. i \in Entries /\ i # AuthKey
    BY <2>2, VAppStoreAssumption DEF Initialized
  <2>5. NewInPlace(i, VAppEntry(m))
    BY <2>2, EntryIsWhole, <2>4 DEF NewInPlace, StoreInv, OneEntryPerName
  <2>6. WritesOK' /\ Updating(i, VAppEntry(m))'
    BY <2>3, <2>4, <2>5, EntryIsWhole, BeginUpdate
  <2>7. KeyOK'
    BY <1>3, <2>3, <2>4, WritesLists, KeyKept
  <2> QED
    BY <1>1, <1>2, <2>2, <2>4, <2>6, <2>7 DEF StoreInv, Initialized, IsInitialized
<1>5. CASE FindByName(m) = {}
  <2>0. PICK i : i = Min(Entries \ Initialized)
    OBVIOUS
  <2>1. writes' = Initialize(i, VAppEntry(m)) /\ Initialized # Entries
    BY <1>5, <2>0 DEF Register, Begin
  <2>2. i \in Entries \ Initialized
    BY <2>0, <2>1, MinIsIn, VAppStoreAssumption DEF Initialized
  <2>3. i \in Cells /\ ~nvm[i].flag /\ i # AuthKey
    BY <2>2, VAppStoreAssumption DEF Initialized, IsInitialized, Cells
  <2>4. NewInPlace(i, VAppEntry(m))
    BY <1>5, <2>2, EntryIsWhole DEF NewInPlace, FindByName
  <2>5. WritesOK' /\ Initializing(i, VAppEntry(m))'
    BY <2>1, <2>2, <2>3, <2>4, EntryIsWhole, BeginInitialize
  <2>6. KeyOK'
    BY <1>3, <2>1, <2>3, WritesLists, KeyKept
  <2> QED
    BY <1>1, <1>2, <2>2, <2>5, <2>6 DEF StoreInv
<1> QED
  BY <1>4, <1>5

LEMMA StartKeeps ==
  ASSUME StoreInv, NEW m \in Vapps, StartVApp(m)
  PROVE  StoreInv'
<1>1. Idle /\ vm = Home /\ vm' = Running(m) /\ UNCHANGED <<nvm, writes>>
      /\ usedKeys' = usedKeys \cup {nvm[AuthKey].value}
  BY DEF StartVApp
<1>2. NvmOK' /\ WritesOK' /\ OneEntryPerName'
  BY <1>1, MemoryUnchanged
<1>3. VmOK'
  BY <1>1 DEF VmOK, Running
<1>4. vm # Off /\ vm' # Off
  BY <1>1 DEF Off, Home, Running
<1>5. KeyOK'
  BY <1>1, <1>4 DEF StoreInv, KeyOK, Idle
<1> QED
  BY <1>2, <1>3, <1>5 DEF StoreInv

\* Steps of the VM that neither write to the memory nor use the key, nor switch it on or off.
LEMMA VmStepKeeps ==
  ASSUME StoreInv, UNCHANGED <<nvm, writes, usedKeys>>, vm # Off, VmOK'
  PROVE  StoreInv'
<1>1. NvmOK' /\ WritesOK' /\ OneEntryPerName'
  BY MemoryUnchanged
<1>2. KeyOK'
  BY DEF StoreInv, KeyOK, Idle
<1> QED
  BY <1>1, <1>2 DEF StoreInv

LEMMA FoundByHash ==
  ASSUME NEW m, IsRegistered(m)
  PROVE  Min(FindByHash(m)) \in Initialized /\ nvm[Min(FindByHash(m))].value.vapp = m
BY MinIsIn, VAppStoreAssumption DEF FindByHash, Initialized, IsRegistered

LEMMA UsableSlot ==
  ASSUME StoreInv, vm.at = "running", NEW s \in 0 .. MaxStorageSlots, Usable(s)
  PROVE  vm.vapp \in Vapps /\ s \in Slots /\ Min(FindByHash(vm.vapp)) \in Entries
<1>1. vm.vapp \in Vapps
  BY DEF StoreInv, VmOK
<1>2. Min(FindByHash(vm.vapp)) \in Entries
  BY FoundByHash DEF Usable, Initialized
<1> QED
  BY <1>1, <1>2, VAppStoreAssumption DEF Usable, Slots

LEMMA StopKeeps ==
  ASSUME StoreInv, StopVApp
  PROVE  StoreInv'
<1>1. VmOK' /\ vm # Off
  BY DEF StopVApp, VmOK, Home, Off
<1> QED
  BY <1>1, VmStepKeeps DEF StopVApp

LEMMA StorageReadKeeps ==
  ASSUME StoreInv, NEW s \in 0 .. MaxStorageSlots, StorageRead(s) \/ RefuseRead(s)
  PROVE  StoreInv'
<1>1. vm # Off
  BY DEF StorageRead, RefuseRead, Off
<1>2. CASE StorageRead(s)
  BY <1>1, <1>2, UsableSlot, VmStepKeeps DEF StorageRead, VmOK, ReadForm
<1>3. CASE RefuseRead(s)
  <2>1. VmOK'
    BY <1>3 DEF RefuseRead, StoreInv, VmOK
  <2> QED
    BY <1>1, <1>3, <2>1, VmStepKeeps DEF RefuseRead
<1> QED
  BY <1>2, <1>3

LEMMA ReadPartKeeps ==
  ASSUME StoreInv, ReadPart
  PROVE  StoreInv'
<1>1. /\ vm.at = "read" /\ vm'.at = "read" /\ vm # Off
      /\ vm'.vapp = vm.vapp /\ vm'.slot = vm.slot /\ vm'.entry = vm.entry
  BY DEF ReadPart, StoreInv, VmOK, ReadForm, Off
<1>2. VmOK'
  BY <1>1 DEF ReadPart, StoreInv, VmOK, ReadForm
<1> QED
  BY <1>1, <1>2, VmStepKeeps DEF ReadPart

LEMMA ReadSlotKeeps ==
  ASSUME StoreInv, ReadSlot
  PROVE  StoreInv'
<1>1. VmOK' /\ vm # Off
  BY DEF ReadSlot, StoreInv, VmOK, Running, Off
<1> QED
  BY <1>1, VmStepKeeps DEF ReadSlot

LEMMA StorageWriteKeeps ==
  ASSUME StoreInv, NEW s \in 0 .. MaxStorageSlots, NEW d \in Data, StorageWrite(s, d)
  PROVE  StoreInv'
<1>1. VmOK' /\ vm # Off
  BY UsableSlot DEF StorageWrite, VmOK, Off
<1> QED
  BY <1>1, VmStepKeeps DEF StorageWrite

LEMMA WriteSlotKeeps ==
  ASSUME StoreInv, WriteSlot
  PROVE  /\ StoreInv'
         /\ nvm[vm.entry].flag =>
              \E i \in Entries, v \in WholeEntry :
                /\ i = vm.entry /\ v = [nvm[i].value EXCEPT !.slots[vm.slot] = vm.data]
                /\ Updating(i, v)'
<1>1. /\ vm.vapp \in Vapps /\ vm.slot \in Slots /\ vm.entry \in Entries /\ vm.data \in Data
      /\ Idle /\ vm.at = "write" /\ UNCHANGED <<nvm, usedKeys>> /\ vm # Off
  BY DEF WriteSlot, StoreInv, VmOK, Off
<1>2. VmOK'
  BY <1>1 DEF WriteSlot, VmOK, Running, Home
<1>3. CASE ~IsInitialized(vm.entry)
  <2>1. UNCHANGED writes
    BY <1>3 DEF WriteSlot
  <2> QED
    BY <1>1, <1>2, <1>3, <2>1, VmStepKeeps DEF IsInitialized
<1>4. CASE IsInitialized(vm.entry)
  <2>0. PICK i, v : i = vm.entry /\ v = [nvm[i].value EXCEPT !.slots[vm.slot] = vm.data]
    OBVIOUS
  <2>1. i \in Initialized
    BY <1>1, <1>4, <2>0 DEF Initialized
  <2>2. nvm[i].value \in WholeEntry /\ i # AuthKey
        /\ NameIn(i) = NameOf[nvm[i].value.vapp]
    BY <2>1, NamesOfWhole DEF StoreInv
  <2>3. v \in WholeEntry /\ v.vapp = nvm[i].value.vapp
    BY <1>1, <2>0, <2>2 DEF WholeEntry
  <2>4. writes' = Update(i, v)
    BY <1>4, <2>0 DEF WriteSlot, Begin
  <2>5. NewInPlace(i, v)
    BY <2>1, <2>2, <2>3 DEF NewInPlace, StoreInv, OneEntryPerName
  <2>6. WritesOK' /\ Updating(i, v)'
    BY <1>1, <2>0, <2>2, <2>3, <2>4, <2>5, BeginUpdate DEF WholeIn
  <2>7. KeyOK'
    BY <1>1, <2>2, <2>4, WritesLists, KeyKept
  <2>8. StoreInv'
    BY <1>1, <1>2, <2>6, <2>7, NvmUnchanged DEF StoreInv
  <2> QED
    BY <1>1, <2>0, <2>3, <2>6, <2>8
<1> QED
  BY <1>3, <1>4

LEMMA ClearWrites ==
  ASSUME NEW i \in Entries
  PROVE  /\ ClearsFlag(Write(i, "flag", FALSE)) /\ ClearsValue(Write(i, "value", VAppEntry(NoVapp)))
         /\ Write(i, "value", VAppEntry(NoVapp)).cell = i
BY DEF ClearsFlag, ClearsValue, Write

LEMMA UninstallAllKeeps ==
  ASSUME StoreInv, UninstallAll
  PROVE  StoreInv' /\ Clearing' /\ Paired'
<1>1. Idle /\ vm # Off /\ UNCHANGED <<nvm, vm, usedKeys>>
  BY DEF UninstallAll, Off
<1>2. PICK order \in Ascending(Initialized) : writes' = ClearAll(order)
  BY DEF UninstallAll, Begin
<1>3. order \in Seq(Entries)
  <2>1. IsFiniteSet(Initialized)
    BY FS_Subset, VAppStoreAssumption DEF Initialized
  <2>2. Cardinality(Initialized) \in Nat
    BY <2>1, FS_CardinalityType
  <2>3. order \in [1 .. Cardinality(Initialized) -> Entries]
    BY <1>2 DEF Ascending, Initialized
  <2> QED
    BY <2>2, <2>3
<1> DEFINE n == Len(order)
<1>4. n \in Nat
  BY <1>3
<1>5. ASSUME NEW k \in 1 .. 2 * n
      PROVE  /\ order[(k + 1) \div 2] \in Entries
             /\ writes'[k] = IF k % 2 = 1 THEN Write(order[(k + 1) \div 2], "flag", FALSE)
                             ELSE Write(order[(k + 1) \div 2], "value", VAppEntry(NoVapp))
  <2>1. (k + 1) \div 2 \in 1 .. n
    BY <1>4
  <2>2. order[(k + 1) \div 2] \in Entries
    BY <1>3, <2>1
  <2>3. writes'[k] = Clear(order[(k + 1) \div 2], VAppEntry(NoVapp))[IF k % 2 = 1 THEN 1 ELSE 2]
    BY <1>2 DEF ClearAll
  <2> QED
    BY <2>2, <2>3 DEF Clear
<1>6. Len(writes') = 2 * n /\ writes' = [k \in 1 .. 2 * n |-> writes'[k]]
  BY <1>2, <1>4 DEF ClearAll
<1>7. Clearing'
  <2>1. ASSUME NEW k \in 1 .. 2 * n, k % 2 = 1
        PROVE  ClearsFlag(writes'[k])
    <3>1. writes'[k] = Write(order[(k + 1) \div 2], "flag", FALSE) /\ order[(k + 1) \div 2] \in Entries
      BY <1>5, <2>1
    <3> QED
      BY <3>1, ClearWrites
  <2>2. ASSUME NEW k \in 1 .. 2 * n, k % 2 # 1
        PROVE  /\ ClearsValue(writes'[k]) /\ k # 1
               /\ writes'[k - 1] = Write(writes'[k].cell, "flag", FALSE)
    <3>1. k # 1 /\ k - 1 \in 1 .. 2 * n /\ (k - 1) % 2 = 1 /\ (k - 1 + 1) \div 2 = (k + 1) \div 2
      BY <1>4, <2>2
    <3>2. /\ writes'[k] = Write(order[(k + 1) \div 2], "value", VAppEntry(NoVapp))
          /\ order[(k + 1) \div 2] \in Entries
      BY <1>5, <2>2
    <3>3. writes'[k - 1] = Write(order[(k + 1) \div 2], "flag", FALSE)
      BY <1>5, <3>1
    <3> QED
      BY <3>1, <3>2, <3>3, ClearWrites
  <2>3. ASSUME NEW k \in 1 .. Len(writes')
        PROVE  \/ ClearsFlag(writes'[k])
               \/ /\ ClearsValue(writes'[k])
                  /\ k = 1 => ~nvm'[writes'[k].cell].flag
                  /\ k > 1 => writes'[k - 1] = Write(writes'[k].cell, "flag", FALSE)
    BY <1>6, <2>1, <2>2, <2>3
  <2>4. Len(writes') \in Nat /\ writes' = [k \in 1 .. Len(writes') |-> writes'[k]]
    BY <1>4, <1>6
  <2> QED
    BY <2>3, <2>4, Zenon DEF Clearing
<1>8. Paired'
  <2>1. ASSUME NEW k \in 1 .. 2 * n, ClearsFlag(writes'[k])
        PROVE  k < 2 * n /\ writes'[k + 1] = Write(writes'[k].cell, "value", VAppEntry(NoVapp))
    <3> DEFINE i == order[(k + 1) \div 2]
    <3>1. k % 2 = 1
      <4>1. k % 2 # 1 => writes'[k] = Write(i, "value", VAppEntry(NoVapp))
        BY <1>5, <2>1
      <4> HIDE DEF i
      <4> QED
        BY <2>1, <4>1 DEF ClearsFlag, Write
    <3>2. k < 2 * n /\ k + 1 \in 1 .. 2 * n /\ (k + 1) % 2 # 1 /\ (k + 1 + 1) \div 2 = (k + 1) \div 2
      BY <1>4, <2>1, <3>1
    <3>3. writes'[k] = Write(i, "flag", FALSE)
      BY <1>5, <2>1, <3>1
    <3>4. writes'[k + 1] = Write(i, "value", VAppEntry(NoVapp))
      BY <1>5, <3>2
    <3> HIDE DEF i
    <3>5. writes'[k].cell = i
      BY <3>3 DEF Write
    <3> QED
      BY <3>2, <3>4, <3>5
  <2> QED
    BY <1>6, <2>1 DEF Paired
<1>9. KeyOK'
  <2>1. CASE n = 0
    BY <1>1, <1>6, <2>1, KeyKept
  <2>2. CASE n # 0
    <3>1. 1 \in 1 .. Len(writes')
      BY <1>4, <1>6, <2>2
    <3>2. ClearsFlag(writes'[1]) \/ ClearsValue(writes'[1])
      BY <1>7, <3>1, Zenon DEF Clearing
    <3> QED
      BY <1>1, <3>2, KeyKept, VAppStoreAssumption DEF ClearsFlag, ClearsValue
  <2> QED
    BY <2>1, <2>2
<1>10. VmOK'
  BY <1>1 DEF StoreInv, VmOK, ReadForm
<1> QED
  BY <1>1, <1>7, <1>8, <1>9, <1>10, NvmUnchanged DEF StoreInv, WritesOK

-----------------------------------------------------------------------------
(* What is written, and what a loss of power leaves, keeps the invariant.      *)

\* A value written to a cell that is not valid.
LEMMA ValueWritten ==
  ASSUME StoreInv, NEW c \in Cells, ~nvm[c].flag,
         NEW v, v \in AnyEntry \cup Keys \cup {Zero, Garbage}, c # AuthKey => v \in AnyEntry,
         nvm' = [nvm EXCEPT ![c].value = v]
  PROVE  /\ NvmOK' /\ OneEntryPerName' /\ Initialized' = Initialized
         /\ \A i \in Initialized : NameIn(i)' = NameIn(i)
         /\ nvm'[c].value = v /\ \A d \in Cells : nvm'[d].flag = nvm[d].flag
         /\ \A d \in Cells : d # c => nvm'[d] = nvm[d]
<1>0. NvmOK
  BY DEF StoreInv
<1>1. /\ nvm'[c].flag = nvm[c].flag /\ nvm'[c].value = v
      /\ \A d \in Cells : d # c => nvm'[d] = nvm[d]
      /\ nvm' \in [Cells -> [flag : BOOLEAN, value : AnyEntry \cup Keys \cup {Zero, Garbage}]]
  BY ZenonT(40), <1>0, CellWritten
<1>2. Initialized' = Initialized /\ c \notin Initialized
  BY <1>1 DEF Initialized, IsInitialized, Cells
<1>3. \A i \in Initialized : i \in Cells /\ i # c /\ nvm'[i] = nvm[i]
  BY <1>1, <1>2 DEF Initialized, Cells
<1>4. \A i \in Initialized : NameIn(i)' = NameIn(i)
  BY <1>3 DEF NameIn
<1>5. NvmOK'
  BY <1>0, <1>1, VAppStoreAssumption DEF NvmOK, Whole, Cells
<1>6. OneEntryPerName'
  BY <1>2, <1>4 DEF StoreInv, OneEntryPerName
<1> QED
  BY <1>1, <1>2, <1>4, <1>5, <1>6

\* A flag that is reset.
LEMMA FlagReset ==
  ASSUME StoreInv, NEW c \in Cells, nvm' = [nvm EXCEPT ![c].flag = FALSE]
  PROVE  /\ NvmOK' /\ OneEntryPerName' /\ Initialized' = Initialized \ {c}
         /\ \A i \in Initialized' : NameIn(i)' = NameIn(i)
         /\ ~nvm'[c].flag /\ nvm'[c].value = nvm[c].value
         /\ \A d \in Cells : d # c => nvm'[d] = nvm[d]
<1>0. NvmOK
  BY DEF StoreInv
<1>1. /\ nvm'[c].flag = FALSE /\ nvm'[c].value = nvm[c].value
      /\ \A d \in Cells : d # c => nvm'[d] = nvm[d]
      /\ nvm' \in [Cells -> [flag : BOOLEAN, value : AnyEntry \cup Keys \cup {Zero, Garbage}]]
  BY <1>0, CellWritten
<1>2. Initialized' = Initialized \ {c}
  BY <1>1 DEF Initialized, IsInitialized, Cells
<1>3. \A i \in Initialized' : i \in Cells /\ i # c /\ nvm'[i] = nvm[i]
  BY <1>1, <1>2 DEF Initialized, Cells
<1>4. \A i \in Initialized' : NameIn(i)' = NameIn(i)
  BY <1>3 DEF NameIn
<1>5. NvmOK'
  BY <1>0, <1>1, VAppStoreAssumption DEF NvmOK, Whole, Cells
<1>6. OneEntryPerName'
  BY <1>2, <1>4 DEF StoreInv, OneEntryPerName
<1> QED
  BY <1>1, <1>2, <1>4, <1>5, <1>6

\* A flag that is set, over a whole value.
LEMMA FlagSet ==
  ASSUME StoreInv, NEW c \in Cells, Whole(c), NewInPlace(c, nvm[c].value),
         nvm' = [nvm EXCEPT ![c].flag = TRUE]
  PROVE  /\ NvmOK' /\ OneEntryPerName'
         /\ nvm'[c].flag /\ nvm'[c].value = nvm[c].value
         /\ \A d \in Cells : d # c => nvm'[d] = nvm[d]
<1>0. NvmOK
  BY DEF StoreInv
<1>1. /\ nvm'[c].flag = TRUE /\ nvm'[c].value = nvm[c].value
      /\ \A d \in Cells : d # c => nvm'[d] = nvm[d]
      /\ nvm' \in [Cells -> [flag : BOOLEAN, value : AnyEntry \cup Keys \cup {Zero, Garbage}]]
  BY <1>0, CellWritten
<1>2. NvmOK'
  BY <1>0, <1>1, VAppStoreAssumption DEF NvmOK, Whole, Cells
<1>3. \A i \in Entries : NameIn(i)' = NameIn(i)
  BY <1>1 DEF NameIn, Cells
<1>4. \A i \in Initialized' : i \in Entries /\ (i = c \/ i \in Initialized)
  BY <1>1 DEF Initialized, IsInitialized, Cells
<1>5. c \in Entries => c # AuthKey /\ nvm[c].value.vapp \in Vapps /\ NameIn(c) = NameOf[nvm[c].value.vapp]
  BY VAppStoreAssumption DEF Whole, WholeIn, WholeEntry, NameIn
<1>6. \A i, j \in Initialized' : NameIn(i)' = NameIn(j)' => i = j
  BY <1>3, <1>4, <1>5 DEF StoreInv, OneEntryPerName, NewInPlace
<1> QED
  BY <1>1, <1>2, <1>6 DEF OneEntryPerName

LEMMA WrittenCases ==
  ASSUME NEW c, NEW f, NEW v, Head(writes) = Write(c, f, v)
  PROVE  /\ f = "flag" => Written = [nvm EXCEPT ![c].flag = v]
         /\ f = "value" => Written = [nvm EXCEPT ![c].value = v]
<1>1. Write(c, f, v).cell = c /\ Write(c, f, v).field = f /\ Write(c, f, v).to = v
  BY DEF Write
<1> QED
  BY <1>1, Zenon DEF Written

LEMMA WholeIsStorable ==
  ASSUME NEW c \in Cells, NEW v \in WholeIn(c)
  PROVE  v \in AnyEntry \cup Keys \cup {Zero, Garbage} /\ (c # AuthKey => v \in AnyEntry)
BY DEF WholeIn, WholeEntry, AnyEntry

LEMMA InitializingWrite ==
  ASSUME StoreInv, NvmWrite, NEW c \in Cells, NEW v \in WholeIn(c), Initializing(c, v)
  PROVE  /\ StoreInv' /\ Validating(c)' /\ nvm'[c].value = v /\ writes' # <<>>
         /\ \A d \in Cells : nvm'[d].flag = nvm[d].flag /\ (d # c => nvm'[d] = nvm[d])
<1>1. Head(writes) = Write(c, "value", v) /\ writes' = <<Write(c, "flag", TRUE)>> /\ writes[1].cell = c
  BY WritesLists DEF NvmWrite, Initializing
<1>2. nvm' = [nvm EXCEPT ![c].value = v]
  BY <1>1, WrittenCases DEF NvmWrite
<1>3. ~nvm[c].flag /\ NewInPlace(c, v) /\ UNCHANGED <<vm, usedKeys>>
  BY DEF Initializing, NvmWrite
<1>4. /\ NvmOK' /\ OneEntryPerName' /\ Initialized' = Initialized
      /\ \A i \in Initialized : NameIn(i)' = NameIn(i)
      /\ nvm'[c].value = v /\ \A d \in Cells : nvm'[d].flag = nvm[d].flag
      /\ \A d \in Cells : d # c => nvm'[d] = nvm[d]
  BY <1>2, <1>3, ValueWritten, WholeIsStorable
<1>5. NewInPlace(c, v)'
  BY <1>3, <1>4 DEF NewInPlace
<1>6. Validating(c)'
  BY <1>1, <1>3, <1>4, <1>5 DEF Validating, Whole
<1>7. writes' # <<>> /\ writes'[1].cell = c
  BY <1>1 DEF Write
<1>8. KeyOK'
  BY <1>1, <1>3, <1>4, <1>7 DEF StoreInv, KeyOK, Idle, Cells
<1>9. VmOK'
  BY <1>3 DEF StoreInv, VmOK, ReadForm
<1> QED
  BY <1>4, <1>6, <1>7, <1>8, <1>9 DEF StoreInv, WritesOK

LEMMA UpdatingWrite ==
  ASSUME StoreInv, NvmWrite, NEW c \in Entries, NEW v \in WholeIn(c), Updating(c, v)
  PROVE  /\ StoreInv' /\ Initializing(c, v)' /\ ~nvm'[c].flag /\ writes' # <<>>
         /\ \A d \in Cells : d # c => nvm'[d] = nvm[d]
<1>0. c \in Cells /\ c # AuthKey
  BY VAppStoreAssumption DEF Cells
<1>1. Head(writes) = Write(c, "flag", FALSE) /\ writes' = Initialize(c, v) /\ writes[1].cell = c
  BY WritesLists DEF NvmWrite, Updating
<1>2. nvm' = [nvm EXCEPT ![c].flag = FALSE]
  BY <1>1, WrittenCases DEF NvmWrite
<1>3. NewInPlace(c, v) /\ UNCHANGED <<vm, usedKeys>> /\ ~Idle
  BY DEF Updating, NvmWrite
<1>4. /\ NvmOK' /\ OneEntryPerName' /\ Initialized' = Initialized \ {c}
      /\ \A i \in Initialized' : NameIn(i)' = NameIn(i)
      /\ ~nvm'[c].flag
      /\ \A d \in Cells : d # c => nvm'[d] = nvm[d]
  BY <1>0, <1>2, FlagReset
<1>5. NewInPlace(c, v)'
  BY <1>3, <1>4 DEF NewInPlace
<1>6. Initializing(c, v)'
  BY <1>0, <1>1, <1>4, <1>5 DEF Initializing
<1>7. writes' # <<>> /\ writes'[1].cell = c
  BY <1>1, WritesLists
<1>8. nvm'[AuthKey] = nvm[AuthKey]
  BY <1>0, <1>4 DEF Cells
<1>9. KeyOK'
  BY <1>0, <1>1, <1>3, <1>7, <1>8 DEF StoreInv, KeyOK, Idle
<1>10. VmOK'
  BY <1>3 DEF StoreInv, VmOK, ReadForm
<1> QED
  BY <1>0, <1>4, <1>6, <1>7, <1>9, <1>10 DEF StoreInv, WritesOK

LEMMA ValidatingWrite ==
  ASSUME StoreInv, NvmWrite, NEW c \in Cells, Validating(c)
  PROVE  /\ StoreInv' /\ writes' = <<>> /\ nvm'[c].flag /\ nvm'[c].value = nvm[c].value
         /\ \A d \in Cells : d # c => nvm'[d] = nvm[d]
<1>1. Head(writes) = Write(c, "flag", TRUE) /\ writes' = <<>> /\ writes[1].cell = c
  <2>1. writes = <<Write(c, "flag", TRUE)>> /\ writes' = Tail(writes)
    BY DEF NvmWrite, Validating
  <2>2. Write(c, "flag", TRUE).cell = c
    BY DEF Write
  <2>3. writes' = <<>> /\ Head(writes) = Write(c, "flag", TRUE) /\ writes[1] = Write(c, "flag", TRUE)
    BY <2>1, OneWrite, Zenon
  <2> QED
    BY <2>2, <2>3, Zenon
<1>2. nvm' = [nvm EXCEPT ![c].flag = TRUE]
  <2>1. Written = [nvm EXCEPT ![c].flag = TRUE]
    BY <1>1, WrittenCases, ZenonT(40)
  <2> QED
    BY <2>1 DEF NvmWrite
<1>3. Whole(c) /\ NewInPlace(c, nvm[c].value) /\ ~nvm[c].flag /\ UNCHANGED <<vm, usedKeys>>
  BY DEF Validating, NvmWrite
<1>4. /\ NvmOK' /\ OneEntryPerName'
      /\ nvm'[c].flag /\ nvm'[c].value = nvm[c].value
      /\ \A d \in Cells : d # c => nvm'[d] = nvm[d]
  BY <1>2, <1>3, FlagSet
<1>5. KeyOK'
  BY <1>1, <1>3, <1>4 DEF StoreInv, KeyOK, Idle, Cells
<1>6. VmOK'
  BY <1>3 DEF StoreInv, VmOK, ReadForm
<1> QED
  BY <1>1, <1>4, <1>5, <1>6, BeginNothing DEF StoreInv

\* uninstall_all goes on: the entry whose value is overwritten is not valid any more.
LEMMA ClearingWrite ==
  ASSUME StoreInv, NvmWrite, Clearing
  PROVE  /\ StoreInv' /\ Clearing'
         /\ Len(writes) \in Nat /\ Len(writes') = Len(writes) - 1
         /\ \A k \in 1 .. Len(writes) - 1 : writes'[k] = writes[k + 1]
         /\ \E c \in Entries :
              /\ \A d \in Cells : d # c => nvm'[d] = nvm[d]
              /\ ~nvm'[c].flag
              /\ \/ writes[1] = Write(c, "flag", FALSE)
                 \/ /\ writes[1] = Write(c, "value", VAppEntry(NoVapp))
                    /\ ~nvm[c].flag /\ nvm'[c].value = VAppEntry(NoVapp)
<1>1. PICK n \in Nat :
        /\ Len(writes) = n /\ n # 0 /\ Head(writes) = writes[1] /\ UNCHANGED <<vm, usedKeys>>
        /\ Len(writes') = n - 1 /\ writes' = [k \in 1 .. n - 1 |-> writes[k + 1]]
  <2>1. Len(writes) \in Nat /\ writes = [k \in 1 .. Len(writes) |-> writes[k]]
    BY DEF Clearing
  <2>2. writes # <<>> /\ writes' = Tail(writes) /\ UNCHANGED <<vm, usedKeys>>
    BY DEF NvmWrite, Idle
  <2>3. Len(writes) # 0
    BY <2>1, <2>2
  <2>4. /\ Head(writes) = writes[1] /\ Len(Tail(writes)) = Len(writes) - 1
        /\ Tail(writes) = [k \in 1 .. Len(writes) - 1 |-> writes[k + 1]]
    BY <2>1, <2>3, TailShifts
  <2> QED
    BY <2>1, <2>2, <2>3, <2>4, Zenon
<1>2. ASSUME NEW k \in 1 .. n
      PROVE  /\ ClearsFlag(writes[k]) \/ ClearsValue(writes[k])
             /\ ~ClearsFlag(writes[k]) /\ k = 1 => ~nvm[writes[k].cell].flag
             /\ ~ClearsFlag(writes[k]) /\ k > 1 =>
                  writes[k - 1] = Write(writes[k].cell, "flag", FALSE)
  BY <1>1, <1>2, Zenon DEF Clearing
<1>3. PICK c \in Entries :
        /\ Head(writes).cell = c
        /\ \/ Head(writes) = Write(c, "flag", FALSE)
           \/ Head(writes) = Write(c, "value", VAppEntry(NoVapp)) /\ ~nvm[c].flag
  <2>1. 1 \in 1 .. n
    BY <1>1
  <2>2. CASE ClearsFlag(writes[1])
    BY <1>1, <2>2, Zenon DEF ClearsFlag
  <2>3. CASE ~ClearsFlag(writes[1])
    BY <1>1, <1>2, <2>1, <2>3, Zenon DEF ClearsValue
  <2> QED
    BY <2>2, <2>3
<1>4. c \in Cells /\ c # AuthKey
  BY <1>3, VAppStoreAssumption DEF Cells
<1>5. VAppEntry(NoVapp) \in AnyEntry
  BY DEF VAppEntry, AnyEntry
<1>6. /\ NvmOK' /\ OneEntryPerName'
      /\ \A d \in Cells : d # c => nvm'[d] = nvm[d]
      /\ \A d \in Cells : ~nvm[d].flag => ~nvm'[d].flag
      /\ ~nvm'[c].flag
      /\ Head(writes) # Write(c, "flag", FALSE) => nvm'[c].value = VAppEntry(NoVapp)
  <2>1. CASE Head(writes) = Write(c, "flag", FALSE)
    <3>1. PICK b : b = FALSE
      OBVIOUS
    <3>2. Head(writes) = Write(c, "flag", b)
      BY <2>1, <3>1
    <3>3. nvm' = [nvm EXCEPT ![c].flag = b]
      BY <3>2, WrittenCases DEF NvmWrite
    <3> QED
      BY <1>4, <2>1, <3>1, <3>3, FlagReset
  <2>2. CASE Head(writes) = Write(c, "value", VAppEntry(NoVapp)) /\ ~nvm[c].flag
    <3>1. nvm' = [nvm EXCEPT ![c].value = VAppEntry(NoVapp)]
      BY <2>2, WrittenCases DEF NvmWrite
    <3>2. Head(writes) # Write(c, "flag", FALSE)
      BY <2>2 DEF Write
    <3> QED
      BY <1>4, <1>5, <2>2, <3>1, <3>2, ValueWritten
  <2> QED
    BY <1>3, <2>1, <2>2
<1>7. Clearing'
  <2>1. ASSUME NEW k \in 1 .. n - 1
        PROVE  \/ ClearsFlag(writes'[k])
               \/ /\ ClearsValue(writes'[k])
                  /\ k = 1 => ~nvm'[writes'[k].cell].flag
                  /\ k > 1 => writes'[k - 1] = Write(writes'[k].cell, "flag", FALSE)
    <3>1. k + 1 \in 1 .. n /\ writes'[k] = writes[k + 1] /\ k + 1 # 1 /\ k + 1 > 1 /\ k + 1 - 1 = k
      BY <1>1, <2>1
    <3>2. CASE ClearsFlag(writes[k + 1])
      BY <3>1, <3>2
    <3>3. CASE /\ ClearsValue(writes[k + 1])
               /\ writes[k] = Write(writes[k + 1].cell, "flag", FALSE)
      <4>1. ASSUME k = 1 PROVE ~nvm'[writes'[k].cell].flag
        <5>1. Head(writes) = Write(writes'[k].cell, "flag", FALSE)
          BY <1>1, <3>1, <3>3, <4>1
        <5>2. c = writes'[k].cell
          BY <1>3, <5>1 DEF Write
        <5> QED
          BY <1>6, <5>1, <5>2
      <4>2. ASSUME k > 1 PROVE writes'[k - 1] = Write(writes'[k].cell, "flag", FALSE)
        <5>1. k - 1 \in 1 .. n - 1 /\ k - 1 + 1 = k
          BY <1>1, <2>1, <4>2
        <5>2. writes'[k - 1] = writes[k]
          BY <1>1, <5>1
        <5> QED
          BY <3>1, <3>3, <5>2
      <4> QED
        BY <3>1, <3>3, <4>1, <4>2
    <3>4. \/ ClearsFlag(writes[k + 1])
          \/ ClearsValue(writes[k + 1]) /\ writes[k] = Write(writes[k + 1].cell, "flag", FALSE)
      <4>1. PICK j \in 1 .. n : j = k + 1 /\ j > 1 /\ j - 1 = k
        BY <3>1
      <4>2. /\ ClearsFlag(writes[j]) \/ ClearsValue(writes[j])
            /\ ~ClearsFlag(writes[j]) => writes[j - 1] = Write(writes[j].cell, "flag", FALSE)
        BY <1>2, <4>1, Zenon
      <4> QED
        BY <4>1, <4>2, Zenon
    <3> QED
      BY <3>2, <3>3, <3>4
  <2>2. Len(writes') \in Nat /\ writes' = [k \in 1 .. Len(writes') |-> writes'[k]]
    BY <1>1
  <2> QED
    BY <1>1, <2>1, <2>2, Zenon DEF Clearing
<1>8. nvm'[AuthKey] = nvm[AuthKey]
  BY <1>4, <1>6 DEF Cells
<1>9. writes' = <<>> \/ writes'[1].cell # AuthKey
  <2>1. CASE n = 1
    BY <1>1, <2>1
  <2>2. CASE n # 1
    <3>1. 2 \in 1 .. n /\ writes'[1] = writes[2]
      BY <1>1, <2>2
    <3>2. writes[2].cell \in Entries
      BY <1>2, <3>1 DEF ClearsFlag, ClearsValue
    <3> QED
      BY <3>1, <3>2, VAppStoreAssumption
  <2> QED
    BY <2>1, <2>2
<1>10. KeyOK'
  BY <1>1, <1>3, <1>4, <1>8, <1>9 DEF StoreInv, KeyOK, Idle
<1>11. VmOK'
  BY <1>1 DEF StoreInv, VmOK, ReadForm
<1>12. StoreInv'
  BY <1>6, <1>7, <1>10, <1>11 DEF StoreInv, WritesOK
<1>13. \/ writes[1] = Write(c, "flag", FALSE)
       \/ /\ writes[1] = Write(c, "value", VAppEntry(NoVapp))
          /\ ~nvm[c].flag /\ nvm'[c].value = VAppEntry(NoVapp)
  BY <1>1, <1>3, <1>6, Zenon
<1>14. Len(writes) \in Nat /\ Len(writes') = Len(writes) - 1
       /\ \A k \in 1 .. Len(writes) - 1 : writes'[k] = writes[k + 1]
  BY <1>1
<1> QED
  BY <1>6, <1>7, <1>12, <1>13, <1>14, Zenon

LEMMA NvmWriteKeeps ==
  ASSUME StoreInv, NvmWrite
  PROVE  StoreInv'
BY InitializingWrite, UpdatingWrite, ValidatingWrite, ClearingWrite DEF StoreInv, WritesOK

\* What a loss of power may tear is the value of a cell that is not valid.
LEMMA PowerLossKeeps ==
  ASSUME StoreInv, PowerLoss
  PROVE  /\ StoreInv'
         /\ \A i \in Entries : nvm'[i].flag = nvm[i].flag /\ (nvm[i].flag => nvm'[i] = nvm[i])
<1>1. writes' = <<>> /\ vm' = Off /\ UNCHANGED usedKeys
  BY DEF PowerLoss
<1>2. VmOK'
  BY <1>1 DEF VmOK, Off
<1>3. CASE UNCHANGED nvm
  <2>1. KeyOK'
    BY <1>1, <1>3 DEF StoreInv, KeyOK, Idle
  <2> QED
    BY <1>1, <1>2, <1>3, <2>1, NvmUnchanged, BeginNothing DEF StoreInv
<1>4. CASE nvm' # nvm
  <2> DEFINE c == Head(writes).cell
  <2>1. /\ writes # <<>> /\ Head(writes).field = "value"
        /\ nvm' = [nvm EXCEPT ![c].value = TornValue[c]]
    BY <1>4 DEF PowerLoss, AfterPowerLoss
  <2>2. c \in Cells /\ ~nvm[c].flag
    <3>1. ASSUME NEW d \in Cells, NEW v \in WholeIn(d), Initializing(d, v)
          PROVE  c \in Cells /\ ~nvm[c].flag
      <4>1. Head(writes) = Write(d, "value", v)
        BY <3>1, WritesLists DEF Initializing
      <4>2. c = d
        BY <4>1 DEF Write
      <4> QED
        BY <3>1, <4>2 DEF Initializing
    <3>2. ASSUME NEW d \in Entries, NEW v \in WholeIn(d), Updating(d, v)
          PROVE  FALSE
      <4>1. Head(writes) = Write(d, "flag", FALSE)
        BY <3>2, WritesLists DEF Updating
      <4> QED
        BY <2>1, <4>1 DEF Write
    <3>3. ASSUME NEW d \in Cells, Validating(d)
          PROVE  FALSE
      <4>1. Head(writes) = Write(d, "flag", TRUE)
        BY <3>3 DEF Validating
      <4> QED
        BY <2>1, <4>1 DEF Write
    <3>4. ASSUME Clearing
          PROVE  c \in Cells /\ ~nvm[c].flag
      <4>1. Len(writes) \in Nat /\ writes = [k \in 1 .. Len(writes) |-> writes[k]]
        BY <3>4 DEF Clearing
      <4>2. 1 \in 1 .. Len(writes) /\ Head(writes) = writes[1]
        BY <2>1, <4>1
      <4>3. \/ ClearsFlag(writes[1])
            \/ ClearsValue(writes[1]) /\ ~nvm[writes[1].cell].flag
        BY <3>4, <4>2, Zenon DEF Clearing
      <4>4. ~ClearsFlag(Head(writes))
        BY <2>1 DEF ClearsFlag, Write
      <4> QED
        BY <4>2, <4>3, <4>4 DEF ClearsValue, Cells
    <3> QED
      BY <3>1, <3>2, <3>3, <3>4 DEF StoreInv, WritesOK
  <2> HIDE DEF c
  <2>3. TornValue[c] \in AnyEntry \cup {Garbage} /\ (c # AuthKey => TornValue[c] \in AnyEntry)
    BY <2>2 DEF TornValue, AnyEntry, Cells
  <2>4. /\ NvmOK' /\ OneEntryPerName'
        /\ \A d \in Cells : nvm'[d].flag = nvm[d].flag
        /\ \A d \in Cells : d # c => nvm'[d] = nvm[d]
    BY <2>1, <2>2, <2>3, ValueWritten
  <2>5. KeyOK'
    BY <1>1, <2>2, <2>4 DEF StoreInv, KeyOK, Idle, Cells
  <2> QED
    BY <1>1, <1>2, <2>2, <2>4, <2>5, BeginNothing DEF StoreInv, Cells
<1> QED
  BY <1>3, <1>4
LEMMA OperateKeeps ==
  ASSUME StoreInv, Operate
  PROVE  StoreInv'
<1>1. ASSUME NEW k \in Keys, Boot(k)
      PROVE  StoreInv'
  BY <1>1, BootKeeps
<1>2. ASSUME NEW m \in Vapps, RegisterVApp(m)
      PROVE  StoreInv'
  BY <1>2, RegisterKeeps DEF RegisterVApp
<1>3. ASSUME NEW m \in Vapps, StartVApp(m)
      PROVE  StoreInv'
  BY <1>3, StartKeeps
<1>4. ASSUME NEW s \in 0 .. MaxStorageSlots, StorageRead(s) \/ RefuseRead(s)
      PROVE  StoreInv'
  BY <1>4, StorageReadKeeps
<1>5. ASSUME NEW s \in 0 .. MaxStorageSlots, NEW d \in Data, StorageWrite(s, d)
      PROVE  StoreInv'
  BY <1>5, StorageWriteKeeps
<1> QED
  BY <1>1, <1>2, <1>3, <1>4, <1>5, StopKeeps, ReadPartKeeps, ReadSlotKeeps, WriteSlotKeeps, UninstallAllKeeps,
     NvmWriteKeeps DEF Operate

LEMMA StoreUnchanged ==
  ASSUME StoreInv, UNCHANGED vars
  PROVE  StoreInv'
<1>1. NvmOK' /\ WritesOK' /\ OneEntryPerName'
  BY MemoryUnchanged DEF vars
<1>2. VmOK' /\ KeyOK'
  BY DEF vars, StoreInv, VmOK, KeyOK, Idle, ReadForm
<1> QED
  BY <1>1, <1>2 DEF StoreInv

LEMMA StoreInvImplies ==
  ASSUME StoreInv
  PROVE  ValidIsWhole /\ OneEntryPerName /\ OneAuthKey
<1>1. ASSUME NEW i \in Initialized
      PROVE  nvm[i].value.vapp \in Vapps /\ Garbage \notin Range(nvm[i].value.slots)
  <2>1. nvm[i].value \in WholeEntry
    BY NamesOfWhole DEF StoreInv
  <2>2. \A s \in DOMAIN nvm[i].value.slots : nvm[i].value.slots[s] # Garbage
    BY <2>1, VAppStoreAssumption DEF WholeEntry
  <2> QED
    BY <2>1, <2>2 DEF WholeEntry, Range
<1>2. IsInitialized(AuthKey) => nvm[AuthKey].value \in Keys
  BY DEF StoreInv, NvmOK, Whole, WholeIn, IsInitialized, Cells
<1>3. OneAuthKey
  <2>1. CASE usedKeys = {}
    BY <2>1, FS_EmptySet DEF OneAuthKey
  <2>2. CASE usedKeys # {}
    <3>1. usedKeys = {nvm[AuthKey].value}
      BY <2>2 DEF StoreInv, KeyOK
    <3>2. Cardinality(usedKeys) = 1
      BY <3>1, FS_Singleton
    <3> QED
      BY <3>2 DEF OneAuthKey
  <2> QED
    BY <2>1, <2>2
<1> QED
  BY <1>1, <1>2, <1>3 DEF ValidIsWhole, StoreInv

\* Registrations, storage ECALLs and uninstallations of LazyStorage cells, each interrupted by
\* a loss of power before, in or after any of their writes, as often as it may happen: a valid
\* cell is whole, names are unique in the store, and only one key is ever used.
THEOREM StoreSafety == Spec => [](ValidIsWhole /\ OneEntryPerName /\ OneAuthKey)
<1>1. StoreInv /\ [Next]_vars => StoreInv'
  BY OperateKeeps, PowerLossKeeps, StoreUnchanged DEF Next
<1> QED
  BY StoreInvInit, <1>1, StoreInvImplies, PTL DEF Spec

\* A cell that update and clear (nvm.rs) left valid holds a value that was written whole.
THEOREM CellsWhole == Spec => []ValidIsWhole
BY StoreSafety, PTL

\* register (vapp.rs) looks a name up before it takes an entry, and no failure between its
\* writes lets a second entry have the name.
THEOREM NamesUnique == Spec => []OneEntryPerName
BY StoreSafety, PTL

\* ensure_initialized (auth.rs) never replaces a key that has authenticated something.
THEOREM AuthKeyKept == Spec => []OneAuthKey
BY StoreSafety, PTL

-----------------------------------------------------------------------------
(* The store implements VAppStorage. An operation takes effect with the last   *)
(* of its writes: while it is under way, JobInv says what it has changed so    *)
(* far, and what its last write will make valid.                               *)
Slice(m, slots) == [s \in 0 .. SlotsOf[m] - 1 |-> slots[s]]

\* An entry is being replaced by v; the V-App m that it was of may be gone by now.
Replacing(c, v, m) ==
  \/ Updating(c, v) /\ nvm[c].flag /\ nvm[c].value.vapp = m /\ Registry = job.before
  \/ /\ Initializing(c, v) \/ (Validating(c) /\ nvm[c].value = v)
     /\ Registry \in {job.before, [job.before EXCEPT ![m] = Absent]}

RegisterJob ==
  /\ vm = Home
  /\ \E c \in Entries, m, old \in Vapps :
       NameOf[old] = NameOf[m] /\ Replacing(c, VAppEntry(m), old)

WriteJob ==
  \E c \in Entries, v \in WholeEntry :
    /\ Replacing(c, v, v.vapp) /\ vm = Running(v.vapp)
    /\ job.before[v.vapp] # Absent
    /\ \E s \in 0 .. SlotsOf[v.vapp] - 1, d \in Data :
         Slice(v.vapp, v.slots) = [job.before[v.vapp] EXCEPT ![s] = d]

JobOK ==
  /\ powerLosses \in Nat
  /\ job.before = [m \in Vapps |-> job.before[m]]
  /\ \/ job.kind = "none" /\ Idle
     \/ job.kind = "boot" /\ ~Idle /\ \E k \in Keys : Initializing(AuthKey, k) \/ Validating(AuthKey)
     \/ job.kind = "register" /\ ~Idle /\ RegisterJob
     \/ job.kind = "write" /\ ~Idle /\ WriteJob
     \/ job.kind = "uninstall" /\ ~Idle /\ Clearing /\ Paired

\* The entry that a storage ECALL found is the V-App's, or has been cleared.
EntryOK ==
  vm.at \in {"read", "write"} =>
    /\ vm.slot < SlotsOf[vm.vapp]
    /\ \A j \in Initialized : nvm[j].value.vapp = vm.vapp <=> j = vm.entry
    /\ ~nvm[vm.entry].flag =>
         \/ nvm[vm.entry].value = VAppEntry(NoVapp)
         \/ ~Idle /\ writes[1] = Write(vm.entry, "value", VAppEntry(NoVapp))

JobInv == JobOK /\ EntryOK
-----------------------------------------------------------------------------
(* What the registry is, for a memory in which a V-App has one entry.          *)

HolderOf(mem, m) == {i \in Entries : mem[i].flag /\ mem[i].value.vapp = m}

RegistryOf(mem) ==
  [m \in Vapps |-> IF HolderOf(mem, m) # {} THEN Slice(m, mem[Min(HolderOf(mem, m))].value.slots)
                                            ELSE Absent]

LEMMA RegistryIs == Registry = RegistryOf(nvm) /\ Registry' = RegistryOf(nvm')
<1>1. \A m : FindByHash(m) = HolderOf(nvm, m) /\ FindByHash(m)' = HolderOf(nvm', m)
  BY DEF FindByHash, HolderOf, Initialized, IsInitialized
<1>2. Registry = RegistryOf(nvm)
  BY <1>1, Zenon DEF Registry, RegistryOf, IsRegistered, Slice
<1>3. Registry' = RegistryOf(nvm')
  BY <1>1, Zenon DEF Registry, RegistryOf, IsRegistered, Slice
<1> QED
  BY <1>2, <1>3

LEMMA RegistryHeld ==
  ASSUME NEW mem, NEW m \in Vapps, NEW c, HolderOf(mem, m) = {c}
  PROVE  RegistryOf(mem)[m] = Slice(m, mem[c].value.slots)
<1>1. c \in Nat
  BY VAppStoreAssumption DEF HolderOf
<1>2. Min({c}) = c
  BY <1>1, MinIsIn
<1> QED
  BY <1>2, Zenon DEF RegistryOf

LEMMA RegistryNotHeld ==
  ASSUME NEW mem, NEW m \in Vapps, HolderOf(mem, m) = {}
  PROVE  RegistryOf(mem)[m] = Absent
BY DEF RegistryOf

\* Only the entries that are valid matter.
LEMMA RegistrySame ==
  ASSUME NEW mem, NEW mem2,
         \A i \in Entries : mem2[i].flag = mem[i].flag /\ (mem[i].flag => mem2[i] = mem[i])
  PROVE  RegistryOf(mem2) = RegistryOf(mem)
<1>1. \A m : HolderOf(mem2, m) = HolderOf(mem, m)
  BY DEF HolderOf
<1>2. ASSUME NEW m \in Vapps, HolderOf(mem, m) # {}
      PROVE  mem2[Min(HolderOf(mem, m))] = mem[Min(HolderOf(mem, m))]
  <2>1. Min(HolderOf(mem, m)) \in HolderOf(mem, m)
    BY <1>2, MinIsIn, VAppStoreAssumption DEF HolderOf
  <2> QED
    BY <2>1 DEF HolderOf
<1> QED
  BY <1>1, <1>2, Zenon DEF RegistryOf

LEMMA OneHolder ==
  ASSUME StoreInv, NEW c \in Entries, nvm[c].flag
  PROVE  nvm[c].value.vapp \in Vapps /\ HolderOf(nvm, nvm[c].value.vapp) = {c}
<1>1. c \in Initialized
  BY DEF Initialized, IsInitialized
<1>2. nvm[c].value.vapp \in Vapps
  BY <1>1, NamesOfWhole DEF StoreInv
<1>3. ASSUME NEW j \in HolderOf(nvm, nvm[c].value.vapp)
      PROVE  j = c
  <2>1. j \in Initialized /\ nvm[j].value.vapp = nvm[c].value.vapp
    BY <1>3 DEF HolderOf, Initialized, IsInitialized
  <2> QED
    BY <1>1, <2>1 DEF StoreInv, OneEntryPerName, NameIn
<1> QED
  BY <1>2, <1>3 DEF HolderOf

HoldersUnique ==
  \A c \in Entries : nvm[c].flag =>
    nvm[c].value.vapp \in Vapps /\ HolderOf(nvm, nvm[c].value.vapp) = {c}

LEMMA HoldersAreUnique == StoreInv => HoldersUnique
BY OneHolder DEF HoldersUnique

\* One entry changes its flag.
LEMMA RegistryReset ==
  ASSUME StoreInv, NEW c \in Entries, nvm[c].flag, ~nvm'[c].flag,
         \A d \in Cells : d # c => nvm'[d] = nvm[d]
  PROVE  Registry' = [Registry EXCEPT ![nvm[c].value.vapp] = Absent]
<1> DEFINE m == nvm[c].value.vapp
<1>1. m \in Vapps /\ HolderOf(nvm, m) = {c}
  BY OneHolder
<1>2. HolderOf(nvm', m) = {}
  BY <1>1 DEF HolderOf, Cells
<1>3. RegistryOf(nvm')[m] = Absent
  BY <1>1, <1>2, RegistryNotHeld
<1>4. ASSUME NEW w \in Vapps, w # m
      PROVE  RegistryOf(nvm')[w] = RegistryOf(nvm)[w]
  <2>1. HolderOf(nvm', w) = HolderOf(nvm, w) /\ c \notin HolderOf(nvm, w)
    BY <1>4 DEF HolderOf, Cells
  <2>2. HolderOf(nvm, w) # {} => nvm'[Min(HolderOf(nvm, w))] = nvm[Min(HolderOf(nvm, w))]
    <3>1. HolderOf(nvm, w) # {} => Min(HolderOf(nvm, w)) \in HolderOf(nvm, w)
      BY MinIsIn, VAppStoreAssumption DEF HolderOf
    <3> QED
      BY <2>1, <3>1 DEF HolderOf, Cells
  <2> QED
    BY <2>1, <2>2, Zenon DEF RegistryOf
<1> HIDE DEF m
<1>5. RegistryOf(nvm') = [RegistryOf(nvm) EXCEPT ![m] = Absent]
  <2>1. RegistryOf(nvm') = [w \in Vapps |-> RegistryOf(nvm')[w]]
    BY DEF RegistryOf
  <2>2. DOMAIN RegistryOf(nvm) = Vapps /\ RegistryOf(nvm) = [w \in Vapps |-> RegistryOf(nvm)[w]]
    BY DEF RegistryOf
  <2> QED
    BY <1>1, <1>3, <1>4, <2>1, <2>2
<1> QED
  BY <1>5, RegistryIs DEF m

LEMMA RegistrySet ==
  ASSUME StoreInv', NEW c \in Entries, ~nvm[c].flag, nvm'[c].flag,
         \A d \in Cells : d # c => nvm'[d] = nvm[d],
         NEW m, nvm'[c].value.vapp = m
  PROVE  m \in Vapps /\ Registry' = [Registry EXCEPT ![m] = Slice(m, nvm'[c].value.slots)]
<1>1. m \in Vapps /\ HolderOf(nvm', m) = {c}
  <2>1. HoldersUnique'
    BY HoldersAreUnique, PTL
  <2> QED
    BY <2>1 DEF HoldersUnique
<1>2. RegistryOf(nvm')[m] = Slice(m, nvm'[c].value.slots)
  BY <1>1, RegistryHeld
<1>3. ASSUME NEW w \in Vapps, w # m
      PROVE  RegistryOf(nvm')[w] = RegistryOf(nvm)[w]
  <2>1. HolderOf(nvm', w) = HolderOf(nvm, w) /\ c \notin HolderOf(nvm, w)
    BY <1>3 DEF HolderOf, Cells
  <2>2. HolderOf(nvm, w) # {} => nvm'[Min(HolderOf(nvm, w))] = nvm[Min(HolderOf(nvm, w))]
    <3>1. HolderOf(nvm, w) # {} => Min(HolderOf(nvm, w)) \in HolderOf(nvm, w)
      BY MinIsIn, VAppStoreAssumption DEF HolderOf
    <3> QED
      BY <2>1, <3>1 DEF HolderOf, Cells
  <2> QED
    BY <2>1, <2>2, Zenon DEF RegistryOf
<1>4. RegistryOf(nvm') = [RegistryOf(nvm) EXCEPT ![m] = Slice(m, nvm'[c].value.slots)]
  <2>1. RegistryOf(nvm') = [w \in Vapps |-> RegistryOf(nvm')[w]]
    BY DEF RegistryOf
  <2>2. DOMAIN RegistryOf(nvm) = Vapps /\ RegistryOf(nvm) = [w \in Vapps |-> RegistryOf(nvm)[w]]
    BY DEF RegistryOf
  <2> QED
    BY <1>1, <1>2, <1>3, <2>1, <2>2
<1> QED
  BY <1>1, <1>4, RegistryIs
-----------------------------------------------------------------------------
(* An operation goes on, or takes effect with its last write.                  *)

LEMMA JobGoesOn ==
  ASSUME NvmWrite
  PROVE  /\ vm' = vm /\ answer' = answer /\ powerLosses' = powerLosses
         /\ writes' # <<>> => job' = job
         /\ writes' = <<>> => job' = NoJob
BY DEF NvmWrite

LEMMA NoJobIs == NoJob.kind = "none" /\ NoJob.before = [m \in Vapps |-> Absent]
BY DEF NoJob

LEMMA EntriesAreCells ==
  ASSUME NEW c \in Entries
  PROVE  c \in Cells /\ c # AuthKey /\ WholeIn(c) = WholeEntry
BY VAppStoreAssumption DEF Cells, WholeIn

Effect(v) == Registry' = [Registry EXCEPT ![v.vapp] = Slice(v.vapp, v.slots)]

LEMMA ReplacingWrite ==
  ASSUME StoreInv, NvmWrite, job.before = [m \in Vapps |-> job.before[m]],
         NEW c \in Entries, NEW v \in WholeEntry, NEW old \in Vapps, Replacing(c, v, old)
  PROVE  \/ writes' # <<>> /\ Replacing(c, v, old)'
         \/ /\ writes' = <<>> /\ Effect(v)
            /\ Registry \in {job.before, [job.before EXCEPT ![old] = Absent]}
            /\ ~nvm[c].flag /\ NewInPlace(c, v)
<1>0. c \in Cells /\ c # AuthKey /\ v \in WholeIn(c)
  BY EntriesAreCells
<1>1. CASE Updating(c, v) /\ nvm[c].flag /\ nvm[c].value.vapp = old /\ Registry = job.before
  <2>1. /\ Initializing(c, v)' /\ ~nvm'[c].flag /\ writes' # <<>>
        /\ \A d \in Cells : d # c => nvm'[d] = nvm[d]
    BY <1>0, <1>1, UpdatingWrite
  <2>2. Registry' = [Registry EXCEPT ![old] = Absent]
    BY <1>1, <2>1, RegistryReset
  <2>3. job' = job
    BY <2>1, JobGoesOn
  <2> QED
    BY <1>1, <2>1, <2>2, <2>3 DEF Replacing
<1>2. CASE Initializing(c, v) /\ Registry \in {job.before, [job.before EXCEPT ![old] = Absent]}
  <2>1. /\ Validating(c)' /\ nvm'[c].value = v /\ writes' # <<>>
        /\ \A d \in Cells : nvm'[d].flag = nvm[d].flag /\ (d # c => nvm'[d] = nvm[d])
    BY <1>0, <1>2, InitializingWrite
  <2>2. ~nvm[c].flag
    BY <1>2 DEF Initializing
  <2>3. Registry' = Registry
    <3>1. \A i \in Entries : nvm'[i].flag = nvm[i].flag /\ (nvm[i].flag => nvm'[i] = nvm[i])
      BY <2>1, <2>2, EntriesAreCells
    <3> QED
      BY <3>1, RegistrySame, RegistryIs
  <2>4. job' = job
    BY <2>1, JobGoesOn
  <2> QED
    BY <1>2, <2>1, <2>3, <2>4 DEF Replacing
<1>3. CASE /\ Validating(c) /\ nvm[c].value = v
           /\ Registry \in {job.before, [job.before EXCEPT ![old] = Absent]}
  <2>1. /\ StoreInv' /\ writes' = <<>> /\ nvm'[c].flag /\ nvm'[c].value = v
        /\ \A d \in Cells : d # c => nvm'[d] = nvm[d]
    BY <1>0, <1>3, ValidatingWrite
  <2>2. ~nvm[c].flag /\ NewInPlace(c, v)
    BY <1>3 DEF Validating
  <2>3. Effect(v)
    BY <2>1, <2>2, RegistrySet DEF Effect
  <2> QED
    BY <1>3, <2>1, <2>2, <2>3
<1> QED
  BY <1>1, <1>2, <1>3 DEF Replacing

\* The key's cell is no entry.
LEMMA BootWrite ==
  ASSUME StoreInv, NvmWrite, NEW k \in Keys, Initializing(AuthKey, k) \/ Validating(AuthKey)
  PROVE  /\ \A i \in Entries : nvm'[i] = nvm[i]
         /\ writes[1].cell = AuthKey
         /\ writes' # <<>> => Validating(AuthKey)'
<1>1. AuthKey \in Cells /\ k \in WholeIn(AuthKey)
  BY DEF Cells, WholeIn
<1>2. CASE Initializing(AuthKey, k)
  <2>1. writes[1].cell = AuthKey
    BY <1>2, WritesLists DEF Initializing
  <2> QED
    BY <1>1, <1>2, <2>1, InitializingWrite, EntriesAreCells
<1>3. CASE Validating(AuthKey)
  <2>1. writes[1].cell = AuthKey
    BY <1>3 DEF Validating, Write
  <2> QED
    BY <1>1, <1>3, <2>1, ValidatingWrite, EntriesAreCells
<1> QED
  BY <1>2, <1>3

\* A step of uninstall_all takes one V-App away, or none.
LEMMA UninstallWrite ==
  ASSUME StoreInv, NvmWrite, Clearing, Paired
  PROVE  /\ Clearing' /\ Paired'
         /\ \/ Registry' = Registry
            \/ writes' # <<>> /\ \E m \in Vapps : Registry' = [Registry EXCEPT ![m] = Absent]
<1>1. /\ Clearing' /\ Len(writes) \in Nat /\ Len(writes') = Len(writes) - 1
      /\ \A k \in 1 .. Len(writes) - 1 : writes'[k] = writes[k + 1]
  BY ClearingWrite
<1>2. PICK c \in Entries :
        /\ \A d \in Cells : d # c => nvm'[d] = nvm[d]
        /\ ~nvm'[c].flag
        /\ \/ writes[1] = Write(c, "flag", FALSE)
           \/ /\ writes[1] = Write(c, "value", VAppEntry(NoVapp))
              /\ ~nvm[c].flag /\ nvm'[c].value = VAppEntry(NoVapp)
  BY ClearingWrite
<1>3. Len(writes) # 0
  BY <1>1 DEF NvmWrite, Idle, Clearing
<1>4. Paired'
  <2>1. ASSUME NEW k \in 1 .. Len(writes'), ClearsFlag(writes'[k])
        PROVE  k < Len(writes') /\ writes'[k + 1] = Write(writes'[k].cell, "value", VAppEntry(NoVapp))
    <3>1. k \in 1 .. Len(writes) - 1 /\ k + 1 \in 1 .. Len(writes) /\ writes'[k] = writes[k + 1]
      BY <1>1, <1>3, <2>1
    <3>2. PICK j \in 1 .. Len(writes) : j = k + 1
      BY <3>1
    <3>3. j < Len(writes) /\ writes[j + 1] = Write(writes[j].cell, "value", VAppEntry(NoVapp))
      BY <2>1, <3>1, <3>2 DEF Paired
    <3>4. k + 1 \in 1 .. Len(writes) - 1 /\ writes'[k + 1] = writes[j + 1]
      BY <1>1, <3>1, <3>2, <3>3
    <3> QED
      BY <1>1, <3>1, <3>2, <3>3, <3>4
  <2> QED
    BY <2>1 DEF Paired
<1>5. CASE ~nvm[c].flag
  <2>1. \A i \in Entries : nvm'[i].flag = nvm[i].flag /\ (nvm[i].flag => nvm'[i] = nvm[i])
    <3>1. nvm[c].flag = FALSE /\ nvm'[c].flag = FALSE
      BY <1>2, <1>5, EntriesAreCells, ClearingWrite DEF StoreInv, NvmOK
    <3> QED
      BY <1>2, <1>5, <3>1, EntriesAreCells
  <2>2. Registry' = Registry
    BY <2>1, RegistrySame, RegistryIs
  <2> QED
    BY <1>1, <1>4, <2>2
<1>6. CASE nvm[c].flag
  <2>1. Registry' = [Registry EXCEPT ![nvm[c].value.vapp] = Absent] /\ nvm[c].value.vapp \in Vapps
    BY <1>2, <1>6, RegistryReset, OneHolder
  <2>2. writes[1] = Write(c, "flag", FALSE) /\ 1 \in 1 .. Len(writes)
    <3>1. 1 \in 1 .. Len(writes)
      BY <1>1, <1>3
    <3> QED
      BY <1>2, <1>6, <3>1, Zenon
  <2>3. ClearsFlag(writes[1])
    BY <2>2, ClearWrites
  <2>4. Len(writes) > 1
    BY <2>2, <2>3 DEF Paired
  <2>5. writes' # <<>>
    BY <1>1, <2>4
  <2> QED
    BY <1>1, <1>4, <2>1, <2>5
<1> QED
  BY <1>5, <1>6
-----------------------------------------------------------------------------
(* JobInv is inductive, next to StoreInv.                                      *)

LEMMA RegistryForm == Registry = [m \in Vapps |-> Registry[m]]
BY DEF Registry

LEMMA RegistryUnchanged ==
  ASSUME UNCHANGED nvm
  PROVE  Registry' = Registry
BY RegistryIs

LEMMA JobInvInit == Init => JobInv
<1> SUFFICES ASSUME Init PROVE JobInv
  OBVIOUS
<1>1. JobOK
  BY NoJobIs DEF Init, JobOK, Idle
<1>2. EntryOK
  BY DEF Init, EntryOK, Off
<1> QED
  BY <1>1, <1>2 DEF JobInv

LEMMA IdleJob ==
  ASSUME JobInv, Idle
  PROVE  job.kind = "none"
BY DEF JobInv, JobOK

\* A step without writes.
LEMMA StillIdle ==
  ASSUME JobInv, Idle, UNCHANGED <<writes, job, powerLosses>>
  PROVE  JobOK'
BY IdleJob DEF JobInv, JobOK, Idle

LEMMA NoEcall ==
  ASSUME vm'.at \notin {"read", "write"}
  PROVE  EntryOK'
BY DEF EntryOK

LEMMA JobBegun ==
  ASSUME NEW kind, NEW todo, Begin(kind, todo)
  PROVE  /\ writes' = todo
         /\ job'.before = [m \in Vapps |-> job'.before[m]]
         /\ todo # <<>> => job'.kind = kind /\ job'.before = Registry
         /\ todo = <<>> => job' = NoJob
<1>1. CASE todo = <<>>
  BY <1>1, NoJobIs DEF Begin
<1>2. CASE todo # <<>>
  <2>1. job' = [kind |-> kind, before |-> Registry] /\ writes' = todo
    BY <1>2 DEF Begin
  <2> QED
    BY <1>2, <2>1, RegistryForm
<1> QED
  BY <1>1, <1>2

LEMMA BootJob ==
  ASSUME StoreInv, JobInv, NEW k \in Keys, Boot(k)
  PROVE  JobInv'
<1>1. powerLosses' \in Nat /\ vm' = Home /\ UNCHANGED nvm
  BY DEF Boot, JobInv, JobOK
<1>2. EntryOK'
  BY <1>1, NoEcall DEF Home
<1>3. CASE nvm[AuthKey].flag
  <2>1. Begin("boot", <<>>)
    BY <1>3 DEF Boot, IsInitialized
  <2>2. /\ writes' = <<>> /\ job' = NoJob /\ job'.before = [m \in Vapps |-> job'.before[m]]
    BY <2>1, JobBegun
  <2> QED
    BY <1>1, <1>2, <2>2, NoJobIs DEF JobInv, JobOK, Idle
<1>4. CASE ~nvm[AuthKey].flag
  <2>1. PICK todo : Begin("boot", todo) /\ todo = Initialize(AuthKey, k) /\ todo # <<>>
    BY <1>4, WritesLists DEF Boot, IsInitialized
  <2>2. /\ writes' = Initialize(AuthKey, k) /\ job'.kind = "boot" /\ writes' # <<>>
        /\ job'.before = [m \in Vapps |-> job'.before[m]]
    BY <2>1, JobBegun
  <2>3. Initializing(AuthKey, k)'
    <3>1. AuthKey \in Cells /\ k \in WholeIn(AuthKey) /\ NewInPlace(AuthKey, k)
      BY DEF Cells, WholeIn, NewInPlace
    <3> QED
      BY <1>1, <1>4, <2>2, <3>1, BeginInitialize
  <2> QED
    BY <1>1, <1>2, <2>2, <2>3 DEF JobInv, JobOK, Idle
<1> QED
  BY <1>3, <1>4

LEMMA RegisterBegins ==
  ASSUME NEW m, Register(m)
  PROVE  \E todo : Begin("register", todo) /\ todo # <<>>
BY WritesLists DEF Register

LEMMA RegisterVAppJob ==
  ASSUME StoreInv, JobInv, NEW m \in Vapps, RegisterVApp(m)
  PROVE  JobInv'
<1>1. /\ Idle /\ vm = Home /\ Register(m) /\ UNCHANGED <<nvm, vm, usedKeys>>
      /\ powerLosses' \in Nat
  BY DEF RegisterVApp, JobInv, JobOK
<1>2. EntryOK'
  BY <1>1, NoEcall DEF Home
<1>3. PICK todo : Begin("register", todo) /\ todo # <<>>
  BY <1>1, RegisterBegins
<1>4. /\ writes' # <<>> /\ job'.kind = "register" /\ job'.before = Registry
      /\ job'.before = [v \in Vapps |-> job'.before[v]]
  BY <1>3, JobBegun
<1>5. PICK i \in Entries :
        \/ Updating(i, VAppEntry(m))' /\ nvm[i].flag /\ NameIn(i) = NameOf[m]
        \/ Initializing(i, VAppEntry(m))'
  BY <1>1, RegisterKeeps
<1>6. Registry' = job'.before
  BY <1>1, <1>4, RegistryUnchanged
<1>7. RegisterJob'
  <2>1. CASE Initializing(i, VAppEntry(m))'
    <3>1. Replacing(i, VAppEntry(m), m)'
      BY <1>6, <2>1 DEF Replacing
    <3> QED
      BY <1>1, <3>1 DEF RegisterJob
  <2>2. CASE Updating(i, VAppEntry(m))' /\ nvm[i].flag /\ NameIn(i) = NameOf[m]
    <3>1. PICK old : old = nvm[i].value.vapp
      OBVIOUS
    <3>2. i \in Initialized
      BY <2>2 DEF Initialized, IsInitialized
    <3>3. old \in Vapps /\ NameOf[old] = NameOf[m]
      BY <2>2, <3>1, <3>2, NamesOfWhole DEF StoreInv
    <3>4. Replacing(i, VAppEntry(m), old)'
      BY <1>1, <1>6, <2>2, <3>1 DEF Replacing
    <3> QED
      BY <1>1, <3>3, <3>4 DEF RegisterJob
  <2> QED
    BY <1>5, <2>1, <2>2
<1> QED
  BY <1>1, <1>2, <1>4, <1>7 DEF JobInv, JobOK, Idle

\* The steps of the VM that neither write nor begin to.
LEMMA QuietJob ==
  ASSUME JobInv, Idle, UNCHANGED <<writes, job, powerLosses>>, vm'.at \notin {"read", "write"}
  PROVE  JobInv'
BY StillIdle, NoEcall DEF JobInv

LEMMA EcallJob ==
  ASSUME StoreInv, JobInv, Idle, vm.at = "running", NEW s, Usable(s),
         UNCHANGED <<nvm, writes, job, powerLosses>>,
         vm'.vapp = vm.vapp, vm'.slot = s, vm'.entry = Min(FindByHash(vm.vapp))
  PROVE  JobInv'
<1> DEFINE c == Min(FindByHash(vm.vapp))
<1>1. c \in Initialized /\ nvm[c].value.vapp = vm.vapp
  BY FoundByHash DEF Usable
<1>2. nvm[c].flag /\ c \in Entries /\ Initialized' = Initialized
  BY <1>1 DEF Initialized, IsInitialized
<1> HIDE DEF c
<1>3. ASSUME NEW j \in Initialized
      PROVE  nvm[j].value.vapp = vm.vapp <=> j = c
  BY <1>1, <1>3 DEF StoreInv, OneEntryPerName, NameIn
<1>4. vm'.entry = c
  BY DEF c
<1>5. EntryOK'
  BY <1>2, <1>3, <1>4 DEF EntryOK, Usable
<1> QED
  BY <1>5, StillIdle DEF JobInv

LEMMA SliceIsSlots ==
  ASSUME NEW v \in WholeEntry
  PROVE  /\ Slice(v.vapp, v.slots) \in [0 .. SlotsOf[v.vapp] - 1 -> Data \cup {Zero}]
         /\ Slice(v.vapp, v.slots) # Absent
<1>1. v.vapp \in Vapps /\ v.slots \in [Slots -> Data \cup {Zero}]
  BY DEF WholeEntry
<1>2. 0 .. SlotsOf[v.vapp] - 1 \subseteq Slots
  BY <1>1, VAppStoreAssumption DEF Slots
<1>3. Slice(v.vapp, v.slots) \in [0 .. SlotsOf[v.vapp] - 1 -> Data \cup {Zero}]
  BY <1>1, <1>2 DEF Slice
<1> QED
  BY <1>1, <1>3, VAppStoreAssumption

\* What the registry says of the V-App in a valid entry.
LEMMA RegisteredEntry ==
  ASSUME StoreInv, NEW c \in Initialized
  PROVE  /\ nvm[c].value \in WholeEntry /\ nvm[c].value.vapp \in Vapps
         /\ Registry[nvm[c].value.vapp] = Slice(nvm[c].value.vapp, nvm[c].value.slots)
         /\ Registry[nvm[c].value.vapp] # Absent
<1>1. c \in Entries /\ nvm[c].flag
  BY DEF Initialized, IsInitialized
<1>2. nvm[c].value \in WholeEntry
  BY NamesOfWhole DEF StoreInv
<1>3. nvm[c].value.vapp \in Vapps /\ HolderOf(nvm, nvm[c].value.vapp) = {c}
  BY <1>1, OneHolder
<1>4. Registry[nvm[c].value.vapp] = Slice(nvm[c].value.vapp, nvm[c].value.slots)
  BY <1>3, RegistryHeld, RegistryIs
<1> QED
  BY <1>2, <1>3, <1>4, SliceIsSlots

LEMMA NotRegistered ==
  ASSUME NEW m \in Vapps, \A i \in Initialized : nvm[i].value.vapp # m
  PROVE  Registry[m] = Absent
<1>1. HolderOf(nvm, m) = {}
  BY DEF HolderOf, Initialized, IsInitialized
<1> QED
  BY <1>1, RegistryNotHeld, RegistryIs
LEMMA WriteSlotJob ==
  ASSUME StoreInv, JobInv, WriteSlot
  PROVE  JobInv'
<1>1. /\ Idle /\ vm.at = "write" /\ UNCHANGED nvm /\ powerLosses' \in Nat /\ UNCHANGED powerLosses
  BY DEF WriteSlot, JobInv, JobOK
<1>2. vm' \in {Running(vm.vapp), Home}
  BY DEF WriteSlot
<1>3. EntryOK'
  BY <1>2, NoEcall DEF Running, Home
<1>4. CASE ~nvm[vm.entry].flag
  <2>1. UNCHANGED <<writes, job>>
    BY <1>4 DEF WriteSlot, IsInitialized
  <2> QED
    BY <1>1, <1>3, <2>1, StillIdle DEF JobInv
<1>5. CASE nvm[vm.entry].flag
  <2>1. PICK c \in Entries, v \in WholeEntry :
          /\ c = vm.entry /\ v = [nvm[c].value EXCEPT !.slots[vm.slot] = vm.data]
          /\ Updating(c, v)'
    BY <1>5, WriteSlotKeeps
  <2>2. PICK todo : vm' = Running(vm.vapp) /\ Begin("write", todo) /\ todo # <<>>
    <3>1. vm' = Running(vm.vapp) /\ Begin("write", Update(c, v))
      BY <1>5, <2>1 DEF WriteSlot, IsInitialized
    <3> QED
      BY <3>1, WritesLists
  <2>3. /\ writes' # <<>> /\ job'.kind = "write" /\ job'.before = Registry
        /\ job'.before = [m \in Vapps |-> job'.before[m]]
    BY <2>2, JobBegun
  <2>4. Registry' = job'.before
    BY <1>1, <2>3, RegistryUnchanged
  <2>5. c \in Initialized
    BY <1>5, <2>1 DEF Initialized, IsInitialized
  <2>6. nvm[c].value.vapp = vm.vapp /\ vm.slot < SlotsOf[vm.vapp]
    BY <1>1, <2>1, <2>5 DEF JobInv, EntryOK
  <2>7. /\ nvm[c].value \in WholeEntry /\ vm.vapp \in Vapps
        /\ Registry[vm.vapp] = Slice(vm.vapp, nvm[c].value.slots) /\ Registry[vm.vapp] # Absent
    BY <2>5, <2>6, RegisteredEntry
  <2>8. vm.slot \in Slots /\ vm.data \in Data
    BY <1>1 DEF StoreInv, VmOK
  <2>9. v.vapp = vm.vapp /\ v.slots = [nvm[c].value.slots EXCEPT ![vm.slot] = vm.data]
    BY <2>1, <2>6, <2>7 DEF WholeEntry
  <2>10. PICK s, d : s = vm.slot /\ d = vm.data
    OBVIOUS
  <2>11. s \in 0 .. SlotsOf[v.vapp] - 1 /\ d \in Data
    BY <2>6, <2>7, <2>8, <2>9, <2>10, VAppStoreAssumption DEF Slots
  <2>12. Slice(v.vapp, v.slots) = [job'.before[v.vapp] EXCEPT ![s] = d]
    <3>1. PICK slots : slots = nvm[c].value.slots /\ slots \in [Slots -> Data \cup {Zero}]
      BY <2>7 DEF WholeEntry
    <3>2. v.slots = [slots EXCEPT ![s] = d] /\ job'.before[v.vapp] = Slice(v.vapp, slots)
      BY <2>3, <2>7, <2>9, <2>10, <3>1
    <3>3. PICK m \in Vapps : m = v.vapp
      BY <2>7, <2>9
    <3>4. Slice(m, [slots EXCEPT ![s] = d]) = [Slice(m, slots) EXCEPT ![s] = d]
      <4>1. s \in 0 .. SlotsOf[m] - 1 /\ slots \in [Slots -> Data \cup {Zero}]
        BY <2>11, <3>1, <3>3
      <4>2. 0 .. SlotsOf[m] - 1 \subseteq Slots
        BY VAppStoreAssumption DEF Slots
      <4> QED
        BY <4>1, <4>2 DEF Slice
    <3> QED
      BY <3>2, <3>3, <3>4, Zenon
  <2>13. Replacing(c, v, v.vapp)'
    <3>1. nvm'[c].flag /\ nvm'[c].value.vapp = v.vapp
      BY <1>1, <1>5, <2>1, <2>6, <2>9
    <3> QED
      BY <2>1, <2>4, <3>1 DEF Replacing
  <2>14. WriteJob'
    BY <2>2, <2>3, <2>7, <2>9, <2>11, <2>12, <2>13 DEF WriteJob
  <2> QED
    BY <1>1, <1>3, <2>3, <2>14 DEF JobInv, JobOK, Idle
<1> QED
  BY <1>4, <1>5

LEMMA UninstallAllJob ==
  ASSUME StoreInv, JobInv, UninstallAll
  PROVE  /\ JobInv' /\ UNCHANGED <<nvm, vm, answer>>
         /\ job'.kind \in {"none", "uninstall"}
<1>1. Idle /\ UNCHANGED <<nvm, vm, answer, powerLosses>> /\ powerLosses' \in Nat
  BY DEF UninstallAll, JobInv, JobOK
<1>2. PICK todo : Begin("uninstall", todo)
  BY DEF UninstallAll
<1>3. JobOK' /\ job'.kind \in {"none", "uninstall"}
  <2>1. CASE todo = <<>>
    <3>1. job' = NoJob /\ writes' = <<>>
      BY <1>2, <2>1, JobBegun
    <3> QED
      BY <1>1, <3>1, NoJobIs DEF JobOK, Idle
  <2>2. CASE todo # <<>>
    <3>1. /\ writes' # <<>> /\ job'.kind = "uninstall"
          /\ job'.before = [m \in Vapps |-> job'.before[m]]
      BY <1>2, <2>2, JobBegun
    <3>2. Clearing' /\ Paired'
      BY UninstallAllKeeps
    <3> QED
      BY <1>1, <3>1, <3>2 DEF JobOK, Idle
  <2> QED
    BY <2>1, <2>2
<1>4. EntryOK'
  BY <1>1 DEF JobInv, EntryOK, Initialized, IsInitialized, Idle
<1> QED
  BY <1>1, <1>3, <1>4 DEF JobInv

LEMMA PowerLossJob ==
  ASSUME JobInv, PowerLoss
  PROVE  JobInv'
<1>1. writes' = <<>> /\ job' = NoJob /\ vm' = Off /\ powerLosses' = powerLosses + 1
  BY DEF PowerLoss
<1>2. JobOK'
  BY <1>1, NoJobIs DEF JobInv, JobOK, Idle
<1>3. EntryOK'
  BY <1>1, NoEcall DEF Off
<1> QED
  BY <1>2, <1>3 DEF JobInv

-----------------------------------------------------------------------------
(* The writes of the operations.                                               *)

LEMMA EndedJob ==
  ASSUME JobInv, NvmWrite, writes' = <<>>
  PROVE  JobOK' /\ job'.kind = "none"
BY JobGoesOn, NoJobIs DEF JobInv, JobOK, Idle

\* The entry of an ECALL, while other cells are written.
LEMMA EntryUntouched ==
  ASSUME StoreInv, JobInv, NvmWrite, \A i \in Entries : nvm'[i] = nvm[i], writes[1].cell \notin Entries
  PROVE  EntryOK'
<1>1. UNCHANGED vm
  BY JobGoesOn
<1>2. Initialized' = Initialized /\ \A j \in Initialized : nvm'[j] = nvm[j]
  BY DEF Initialized, IsInitialized
<1>3. vm.at \in {"read", "write"} => vm.entry \in Entries
  BY DEF StoreInv, VmOK
<1>4. \A c : writes[1] = Write(c, "value", VAppEntry(NoVapp)) => writes[1].cell = c
  BY DEF Write
<1> QED
  BY <1>1, <1>2, <1>3, <1>4 DEF JobInv, EntryOK

LEMMA UninstallEntry ==
  ASSUME StoreInv, JobInv, NvmWrite, Clearing, Paired
  PROVE  EntryOK'
<1> SUFFICES ASSUME vm.at \in {"read", "write"}
             PROVE  EntryOK'
  BY JobGoesOn DEF EntryOK
<1>1. UNCHANGED vm /\ vm.entry \in Entries
  BY JobGoesOn DEF StoreInv, VmOK
<1>2. /\ vm.slot < SlotsOf[vm.vapp]
      /\ \A j \in Initialized : nvm[j].value.vapp = vm.vapp <=> j = vm.entry
      /\ ~nvm[vm.entry].flag =>
           \/ nvm[vm.entry].value = VAppEntry(NoVapp)
           \/ writes[1] = Write(vm.entry, "value", VAppEntry(NoVapp))
  BY DEF JobInv, EntryOK
<1>3. PICK c \in Entries :
        /\ \A d \in Cells : d # c => nvm'[d] = nvm[d]
        /\ ~nvm'[c].flag
        /\ \/ writes[1] = Write(c, "flag", FALSE)
           \/ /\ writes[1] = Write(c, "value", VAppEntry(NoVapp))
              /\ ~nvm[c].flag /\ nvm'[c].value = VAppEntry(NoVapp)
  BY ClearingWrite
<1>4. /\ Len(writes) \in Nat /\ Len(writes') = Len(writes) - 1
      /\ \A k \in 1 .. Len(writes) - 1 : writes'[k] = writes[k + 1]
  BY ClearingWrite
<1>5. \A j \in Initialized' : j \in Initialized /\ j # c /\ nvm'[j] = nvm[j]
  BY <1>3, EntriesAreCells DEF Initialized, IsInitialized
<1>6. ASSUME ~nvm'[vm.entry].flag
      PROVE  \/ nvm'[vm.entry].value = VAppEntry(NoVapp)
             \/ writes' # <<>> /\ writes'[1] = Write(vm.entry, "value", VAppEntry(NoVapp))
  <2>1. CASE vm.entry # c
    <3>1. nvm'[vm.entry] = nvm[vm.entry]
      BY <1>1, <1>3, <2>1, EntriesAreCells
    <3>2. writes[1] # Write(vm.entry, "value", VAppEntry(NoVapp))
      BY <1>3, <2>1 DEF Write
    <3> QED
      BY <1>2, <1>6, <3>1, <3>2
  <2>2. CASE vm.entry = c /\ writes[1] = Write(c, "flag", FALSE)
    <3>1. 1 \in 1 .. Len(writes)
      BY <1>4 DEF NvmWrite, Idle, Clearing
    <3>2. ClearsFlag(writes[1]) /\ writes[1].cell = c
      <4>1. ClearsFlag(writes[1])
        BY <2>2, ClearWrites
      <4> QED
        BY <2>2, <4>1 DEF Write
    <3>3. PICK one : one = 1
      OBVIOUS
    <3>4. one < Len(writes) /\ writes[one + 1] = Write(c, "value", VAppEntry(NoVapp))
      BY <3>1, <3>2, <3>3 DEF Paired
    <3>5. 1 \in 1 .. Len(writes) - 1
      BY <1>4, <3>3, <3>4
    <3>6. writes'[1] = writes[one + 1] /\ writes' # <<>>
      BY <1>4, <3>3, <3>5
    <3> QED
      BY <2>2, <3>4, <3>6
  <2> QED
    BY <1>3, <2>1, <2>2
<1>7. \A j \in Initialized' : nvm'[j].value.vapp = vm.vapp <=> j = vm.entry
  BY <1>2, <1>5
<1> QED
  BY <1>1, <1>2, <1>6, <1>7 DEF EntryOK, Idle
\* What a write of the operation in hand does to the registry.
LEMMA RegisterWrite ==
  ASSUME StoreInv, JobInv, NvmWrite, job.kind = "register"
  PROVE  /\ JobInv'
         /\ \/ writes' # <<>> /\ job' = job
            \/ /\ job'.kind = "none" /\ vm = Home
               /\ \E m \in Vapps :
                    Registry' = [w \in Vapps |-> IF w = m THEN [s \in 0 .. SlotsOf[m] - 1 |-> Zero]
                                                 ELSE IF NameOf[w] = NameOf[m] THEN Absent
                                                 ELSE job.before[w]]
<1>1. vm = Home /\ job.before = [w \in Vapps |-> job.before[w]] /\ powerLosses \in Nat
  BY DEF JobInv, JobOK, RegisterJob
<1>2. PICK c \in Entries, m \in Vapps, old \in Vapps :
        NameOf[old] = NameOf[m] /\ Replacing(c, VAppEntry(m), old)
  BY DEF JobInv, JobOK, RegisterJob
<1>3. PICK v : v = VAppEntry(m) /\ v \in WholeEntry /\ v.vapp = m /\ v.slots = [s \in Slots |-> Zero]
  <2>1. VAppEntry(m) \in WholeEntry /\ VAppEntry(m).vapp = m
    BY EntryIsWhole, EntriesAreCells
  <2>2. VAppEntry(m).slots = [s \in Slots |-> Zero]
    BY DEF VAppEntry
  <2> QED
    BY <2>1, <2>2
<1>4. UNCHANGED vm
  BY JobGoesOn
<1>5. EntryOK'
  BY <1>1, <1>4, NoEcall DEF Home
<1>6. \/ writes' # <<>> /\ Replacing(c, v, old)'
      \/ /\ writes' = <<>> /\ Effect(v)
         /\ Registry \in {job.before, [job.before EXCEPT ![old] = Absent]}
         /\ ~nvm[c].flag /\ NewInPlace(c, v)
  BY <1>1, <1>2, <1>3, ReplacingWrite
<1>7. CASE writes' # <<>> /\ Replacing(c, v, old)'
  <2>1. job' = job /\ powerLosses' = powerLosses
    BY <1>7, JobGoesOn
  <2>2. RegisterJob'
    BY <1>1, <1>2, <1>3, <1>4, <1>7 DEF RegisterJob
  <2> QED
    BY <1>1, <1>5, <1>7, <2>1, <2>2 DEF JobInv, JobOK, Idle
<1>8. CASE /\ writes' = <<>> /\ Effect(v)
           /\ Registry \in {job.before, [job.before EXCEPT ![old] = Absent]}
           /\ ~nvm[c].flag /\ NewInPlace(c, v)
  <2>1. JobInv' /\ job'.kind = "none"
    BY <1>5, <1>8, EndedJob DEF JobInv
  <2>2. Slice(m, v.slots) = [s \in 0 .. SlotsOf[m] - 1 |-> Zero]
    <3>1. 0 .. SlotsOf[m] - 1 \subseteq Slots
      BY VAppStoreAssumption DEF Slots
    <3> QED
      BY <1>3, <3>1 DEF Slice
  <2>3. Registry' = [Registry EXCEPT ![m] = [s \in 0 .. SlotsOf[m] - 1 |-> Zero]]
    BY <1>3, <1>8, <2>2 DEF Effect
  <2>4. ASSUME NEW w \in Vapps, NameOf[w] = NameOf[m]
        PROVE  Registry[w] = Absent
    <3>1. ASSUME NEW j \in Initialized
          PROVE  nvm[j].value.vapp # w
      <4>1. j # c /\ NameIn(j) = NameOf[nvm[j].value.vapp]
        BY <1>8, NamesOfWhole DEF StoreInv, Initialized, IsInitialized
      <4>2. NameIn(j) # NameOf[m]
        BY <1>3, <1>8, <4>1, EntriesAreCells DEF NewInPlace
      <4> QED
        BY <2>4, <4>1, <4>2
    <3> QED
      BY <3>1, NotRegistered
  <2>5. ASSUME NEW w \in Vapps, NameOf[w] # NameOf[m]
        PROVE  Registry[w] = job.before[w]
    BY <1>1, <1>2, <1>8, <2>5
  <2>6. PICK empty : empty = [s \in 0 .. SlotsOf[m] - 1 |-> Zero]
    OBVIOUS
  <2>7. Registry' = [w \in Vapps |-> IF w = m THEN empty
                                     ELSE IF NameOf[w] = NameOf[m] THEN Absent
                                     ELSE job.before[w]]
    <3>1. Registry' = [Registry EXCEPT ![m] = empty]
      BY <2>3, <2>6
    <3> QED
      BY <2>4, <2>5, <3>1, RegistryForm
  <2>8. vm = Home /\ job'.kind = "none" /\ JobInv'
    BY <1>1, <2>1
  <2> QED
    BY <2>6, <2>7, <2>8, Zenon
<1> QED
  BY <1>6, <1>7, <1>8

LEMMA WriteWrite ==
  ASSUME StoreInv, JobInv, NvmWrite, job.kind = "write"
  PROVE  /\ JobInv'
         /\ \/ writes' # <<>> /\ job' = job
            \/ /\ job'.kind = "none" /\ vm.vapp \in Vapps /\ job.before[vm.vapp] # Absent
               /\ \E s \in 0 .. SlotsOf[vm.vapp] - 1, d \in Data :
                    Registry' = [job.before EXCEPT ![vm.vapp][s] = d]
<1>1. job.before = [w \in Vapps |-> job.before[w]] /\ powerLosses \in Nat
  BY DEF JobInv, JobOK
<1>2. PICK c \in Entries, v \in WholeEntry :
        /\ Replacing(c, v, v.vapp) /\ vm = Running(v.vapp)
        /\ job.before[v.vapp] # Absent
        /\ \E s \in 0 .. SlotsOf[v.vapp] - 1, d \in Data :
             Slice(v.vapp, v.slots) = [job.before[v.vapp] EXCEPT ![s] = d]
  BY DEF JobInv, JobOK, WriteJob
<1>3. PICK m \in Vapps : m = v.vapp
  BY DEF WholeEntry
<1>4. PICK s \in 0 .. SlotsOf[m] - 1, d \in Data : Slice(m, v.slots) = [job.before[m] EXCEPT ![s] = d]
  BY <1>2, <1>3
<1>5. UNCHANGED vm /\ vm.vapp = m /\ vm.at = "running"
  BY <1>2, <1>3, JobGoesOn DEF Running
<1>6. EntryOK'
  BY <1>5, NoEcall
<1>7. \/ writes' # <<>> /\ Replacing(c, v, m)'
      \/ /\ writes' = <<>> /\ Effect(v)
         /\ Registry \in {job.before, [job.before EXCEPT ![m] = Absent]}
  BY <1>1, <1>2, <1>3, ReplacingWrite
<1>8. CASE writes' # <<>> /\ Replacing(c, v, m)'
  <2>1. job' = job /\ powerLosses' = powerLosses
    BY <1>8, JobGoesOn
  <2>2. WriteJob'
    BY <1>2, <1>3, <1>5, <1>8, <2>1 DEF WriteJob
  <2> QED
    BY <1>1, <1>6, <1>8, <2>1, <2>2 DEF JobInv, JobOK, Idle
<1>9. CASE /\ writes' = <<>> /\ Effect(v)
           /\ Registry \in {job.before, [job.before EXCEPT ![m] = Absent]}
  <2>1. JobInv' /\ job'.kind = "none"
    BY <1>6, <1>9, EndedJob DEF JobInv
  <2>2. PICK new : new = [job.before[m] EXCEPT ![s] = d]
    OBVIOUS
  <2>3. Registry' = [Registry EXCEPT ![m] = new]
    BY <1>3, <1>4, <1>9, <2>2 DEF Effect
  <2>4. Registry' = [job.before EXCEPT ![m] = new]
    BY <1>1, <1>9, <2>3
  <2>5. Registry' = [job.before EXCEPT ![vm.vapp][s] = d]
    BY <1>5, <2>2, <2>4
  <2> QED
    BY <1>2, <1>3, <1>5, <2>1, <2>5
<1> QED
  BY <1>7, <1>8, <1>9

LEMMA BootingWrite ==
  ASSUME StoreInv, JobInv, NvmWrite, job.kind = "boot"
  PROVE  JobInv' /\ Registry' = Registry /\ job'.kind \in {"none", "boot"}
<1>1. PICK k \in Keys : Initializing(AuthKey, k) \/ Validating(AuthKey)
  BY DEF JobInv, JobOK
<1>2. /\ \A i \in Entries : nvm'[i] = nvm[i]
      /\ writes[1].cell = AuthKey
      /\ writes' # <<>> => Validating(AuthKey)'
  BY <1>1, BootWrite
<1>3. Registry' = Registry
  BY <1>2, RegistrySame, RegistryIs
<1>4. EntryOK'
  BY <1>2, EntryUntouched, VAppStoreAssumption
<1>5. CASE writes' = <<>>
  BY <1>3, <1>4, <1>5, EndedJob DEF JobInv
<1>6. CASE writes' # <<>>
  <2>1. job' = job /\ powerLosses' = powerLosses
    BY <1>6, JobGoesOn
  <2> QED
    BY <1>2, <1>3, <1>4, <1>6, <2>1 DEF JobInv, JobOK, Idle
<1> QED
  BY <1>5, <1>6

LEMMA UninstallingWrite ==
  ASSUME StoreInv, JobInv, NvmWrite, job.kind = "uninstall"
  PROVE  /\ JobInv'
         /\ \/ Registry' = Registry /\ job'.kind \in {"none", "uninstall"}
            \/ /\ job'.kind = "uninstall"
               /\ \E m \in Vapps : Registry' = [Registry EXCEPT ![m] = Absent]
<1>1. Clearing /\ Paired
  BY DEF JobInv, JobOK
<1>2. /\ Clearing' /\ Paired'
      /\ \/ Registry' = Registry
         \/ writes' # <<>> /\ \E m \in Vapps : Registry' = [Registry EXCEPT ![m] = Absent]
  BY <1>1, UninstallWrite
<1>3. EntryOK'
  BY <1>1, UninstallEntry
<1>4. CASE writes' = <<>>
  BY <1>2, <1>3, <1>4, EndedJob DEF JobInv
<1>5. CASE writes' # <<>>
  <2>1. job' = job /\ powerLosses' = powerLosses
    BY <1>5, JobGoesOn
  <2>2. JobInv'
    BY <1>2, <1>3, <1>5, <2>1 DEF JobInv, JobOK, Idle
  <2> QED
    BY <1>2, <2>1, <2>2
<1> QED
  BY <1>4, <1>5
LEMMA NvmWriteJob ==
  ASSUME StoreInv, JobInv, NvmWrite
  PROVE  JobInv'
<1>1. job.kind \in {"boot", "register", "write", "uninstall"}
  BY DEF JobInv, JobOK, NvmWrite
<1> QED
  BY <1>1, BootingWrite, RegisterWrite, WriteWrite, UninstallingWrite

-----------------------------------------------------------------------------
(* Every step is one of VAppStorage.                                           *)

RegistryLeft == RegistryNow' = RegistryNow
RunningLeft == vm'.vapp = vm.vapp
ReadingLeft == Reading' = Reading
UninstallingLeft == (job'.kind = "uninstall") = (job.kind = "uninstall")

\* The V-App goes on, or is stopped.
Disturbed == vm' = vm \/ (vm'.vapp = NoVapp /\ Reading' = <<>>)

Simulates == Lossy!Next \/ UNCHANGED Lossy!storageVars

\* Nothing is being read before the first part is.
LEMMA ReadingIs ==
  /\ vm' = vm => ReadingLeft
  /\ vm.at # "read" => Reading = <<>>
  /\ vm'.at # "read" => Reading' = <<>>
BY DEF ReadingLeft, Reading

LEMMA Stutters ==
  ASSUME RegistryLeft, RunningLeft, ReadingLeft, UninstallingLeft, answer' = answer
  PROVE  Simulates
BY DEF Simulates, Lossy!storageVars, RegistryLeft, RunningLeft, ReadingLeft, UninstallingLeft

LEMMA SimulatesRegister ==
  ASSUME vm.vapp = NoVapp, RunningLeft, ReadingLeft, UninstallingLeft, answer' = answer, NEW m \in Vapps,
         RegistryNow' = [w \in Vapps |-> IF w = m THEN [s \in 0 .. SlotsOf[m] - 1 |-> Zero]
                                         ELSE IF NameOf[w] = NameOf[m] THEN Absent
                                         ELSE RegistryNow[w]]
  PROVE  Simulates
<1>1. Lossy!Register(m)
  BY DEF Lossy!Register, Lossy!Empty, RunningLeft, ReadingLeft, UninstallingLeft
<1> QED
  BY <1>1 DEF Simulates, Lossy!Next

LEMMA SimulatesStart ==
  ASSUME vm.vapp = NoVapp, RegistryLeft, ReadingLeft, UninstallingLeft, answer' = answer, NEW m \in Vapps,
         RegistryNow[m] # Absent, vm'.vapp = m
  PROVE  Simulates
<1>1. Lossy!Start(m)
  BY DEF Lossy!Start, RegistryLeft, ReadingLeft, UninstallingLeft
<1> QED
  BY <1>1 DEF Simulates, Lossy!Next

LEMMA SimulatesStop ==
  ASSUME RegistryLeft, UninstallingLeft, answer' = answer, vm'.vapp = NoVapp, Reading' = <<>>
  PROVE  Simulates
<1>1. Lossy!Stop
  BY DEF Lossy!Stop, RegistryLeft, UninstallingLeft
<1> QED
  BY <1>1 DEF Simulates, Lossy!Next

LEMMA SimulatesReadPart ==
  ASSUME RegistryLeft, RunningLeft, UninstallingLeft, answer' = answer, vm.vapp # NoVapp,
         NEW s \in 0 .. MaxStorageSlots, Reading = <<>>, NEW v, Reading' = <<s, v>>,
         v = IF RegistryNow[vm.vapp] # Absent /\ s < SlotsOf[vm.vapp] THEN RegistryNow[vm.vapp][s] ELSE Zero
  PROVE  Simulates
<1>1. Lossy!ReadPart(s)
  BY DEF Lossy!ReadPart, Lossy!Content, Lossy!Holds, RegistryLeft, RunningLeft, UninstallingLeft
<1> QED
  BY <1>1 DEF Simulates, Lossy!Next

LEMMA SimulatesRead ==
  ASSUME RegistryLeft, RunningLeft, UninstallingLeft, vm.vapp # NoVapp, Reading' = <<>>,
         NEW s \in 0 .. MaxStorageSlots, NEW v,
         v = IF RegistryNow[vm.vapp] # Absent /\ s < SlotsOf[vm.vapp] THEN RegistryNow[vm.vapp][s] ELSE Zero,
         \/ Reading = <<>> /\ answer' = <<v>>
         \/ Reading # <<>> /\ Reading[1] = s /\ answer' = <<Reading[2], v>>
  PROVE  Simulates
<1>1. Lossy!Read(s)
  BY DEF Lossy!Read, Lossy!Content, Lossy!Holds, RegistryLeft, RunningLeft, UninstallingLeft
<1> QED
  BY <1>1 DEF Simulates, Lossy!Next

LEMMA SimulatesRefuse ==
  ASSUME RegistryLeft, RunningLeft, UninstallingLeft, vm.vapp # NoVapp, Reading = <<>>, ReadingLeft,
         NEW s \in 0 .. MaxStorageSlots, answer' = Failed,
         ~(RegistryNow[vm.vapp] # Absent /\ s < SlotsOf[vm.vapp])
  PROVE  Simulates
<1>1. Lossy!RefuseRead(s)
  BY DEF Lossy!RefuseRead, Lossy!Holds, RegistryLeft, RunningLeft, ReadingLeft, UninstallingLeft
<1> QED
  BY <1>1 DEF Simulates, Lossy!Next

LEMMA SimulatesPut ==
  ASSUME RunningLeft, Reading = <<>>, ReadingLeft, UninstallingLeft, answer' = answer, vm.vapp # NoVapp,
         RegistryNow[vm.vapp] # Absent,
         NEW s \in 0 .. MaxStorageSlots, s < SlotsOf[vm.vapp], NEW d \in Data,
         RegistryNow' = [RegistryNow EXCEPT ![vm.vapp][s] = d]
  PROVE  Simulates
<1>1. Lossy!Put(s, d)
  BY DEF Lossy!Put, Lossy!Holds, RunningLeft, ReadingLeft, UninstallingLeft
<1> QED
  BY <1>1 DEF Simulates, Lossy!Next

LEMMA SimulatesBeginUninstall ==
  ASSUME RegistryLeft, RunningLeft, ReadingLeft, answer' = answer, job'.kind = "uninstall"
  PROVE  Simulates
<1>1. Lossy!BeginUninstall
  BY DEF Lossy!BeginUninstall, RegistryLeft, RunningLeft, ReadingLeft
<1> QED
  BY <1>1 DEF Simulates, Lossy!Next

LEMMA SimulatesUninstall ==
  ASSUME UninstallingLeft, answer' = answer, job.kind = "uninstall" \/ powerLosses' > 0,
         Disturbed, NEW m \in Vapps,
         RegistryNow' = [RegistryNow EXCEPT ![m] = Absent]
  PROVE  Simulates
<1>1. Lossy!Uninstall(m)
  BY ReadingIs DEF Lossy!Uninstall, Lossy!Disturb, Disturbed, ReadingLeft, UninstallingLeft
<1> QED
  BY <1>1 DEF Simulates, Lossy!Next

LEMMA SimulatesEndUninstall ==
  ASSUME RegistryLeft, answer' = answer, job'.kind # "uninstall", Disturbed
  PROVE  Simulates
<1>1. Lossy!EndUninstall
  BY ReadingIs DEF Lossy!EndUninstall, Lossy!Disturb, Disturbed, ReadingLeft, RegistryLeft
<1> QED
  BY <1>1 DEF Simulates, Lossy!Next
LEMMA NowIs ==
  /\ job.kind \in {"register", "write"} => RegistryNow = job.before
  /\ job.kind \notin {"register", "write"} => RegistryNow = Registry
  /\ job'.kind \in {"register", "write"} => RegistryNow' = job'.before
  /\ job'.kind \notin {"register", "write"} => RegistryNow' = Registry'
BY DEF RegistryNow

LEMMA NothingWritten ==
  ASSUME UNCHANGED <<nvm, job>>
  PROVE  RegistryLeft /\ UninstallingLeft
BY NowIs, RegistryUnchanged DEF RegistryLeft, UninstallingLeft

LEMMA IdleNow ==
  ASSUME JobInv, Idle
  PROVE  RegistryNow = Registry /\ job.kind # "uninstall"
BY IdleJob, NowIs

\* An operation begins: nothing has changed yet.
LEMMA BeginSimulates ==
  ASSUME JobInv, Idle, NEW kind, NEW todo, Begin(kind, todo), kind # "uninstall",
         UNCHANGED nvm
  PROVE  RegistryLeft /\ UninstallingLeft
<1>1. CASE todo = <<>>
  <2>1. job'.kind = "none"
    BY <1>1, JobBegun, NoJobIs
  <2>2. RegistryLeft
    BY <2>1, IdleNow, NowIs, RegistryUnchanged DEF RegistryLeft
  <2>3. UninstallingLeft
    BY <2>1, IdleNow DEF UninstallingLeft
  <2> QED
    BY <2>2, <2>3
<1>2. CASE todo # <<>>
  <2>1. job'.kind = kind /\ job'.before = Registry
    <3>1. job' = [kind |-> kind, before |-> Registry]
      BY <1>2 DEF Begin
    <3> QED
      BY <3>1
  <2> QED
    BY <2>1, IdleNow, NowIs, RegistryUnchanged DEF RegistryLeft, UninstallingLeft
<1> QED
  BY <1>1, <1>2

LEMMA BootSimulates ==
  ASSUME JobInv, NEW k \in Keys, Boot(k)
  PROVE  Simulates
<1>1. PICK todo : Begin("boot", todo) /\ Idle /\ UNCHANGED <<nvm, answer>>
  BY DEF Boot
<1>2. RunningLeft /\ ReadingLeft
  BY ReadingIs DEF Boot, RunningLeft, ReadingLeft, Off, Home
<1>3. PICK kind : kind = "boot"
  OBVIOUS
<1>4. RegistryLeft /\ UninstallingLeft
  BY <1>1, <1>3, BeginSimulates
<1> QED
  BY <1>1, <1>2, <1>4, Stutters

LEMMA RegisterVAppSimulates ==
  ASSUME JobInv, NEW m \in Vapps, RegisterVApp(m)
  PROVE  Simulates
<1>1. PICK todo : Begin("register", todo) /\ Idle /\ UNCHANGED <<nvm, vm, answer>>
  BY RegisterBegins DEF RegisterVApp
<1>2. PICK kind : kind = "register"
  OBVIOUS
<1>3. RegistryLeft /\ UninstallingLeft
  BY <1>1, <1>2, BeginSimulates
<1> QED
  BY <1>1, <1>3, ReadingIs, Stutters DEF RunningLeft

LEMMA StartSimulates ==
  ASSUME StoreInv, JobInv, NEW m \in Vapps, StartVApp(m)
  PROVE  Simulates
<1>1. Idle /\ vm = Home /\ IsRegistered(m) /\ vm' = Running(m) /\ UNCHANGED <<nvm, job, answer>>
  BY DEF StartVApp
<1>2. RegistryNow[m] # Absent
  BY <1>1, IdleNow, FoundByHash, RegisteredEntry
<1>3. vm.vapp = NoVapp /\ vm'.vapp = m /\ ReadingLeft
  BY <1>1, ReadingIs DEF Home, Running, ReadingLeft
<1> QED
  BY <1>1, <1>2, <1>3, NothingWritten, SimulatesStart

LEMMA StopSimulates ==
  ASSUME StopVApp
  PROVE  Simulates
BY NothingWritten, ReadingIs, SimulatesStop DEF StopVApp, Home

LEMMA EcallSimulates ==
  ASSUME NEW s, NEW d, StorageRead(s) \/ StorageWrite(s, d)
  PROVE  Simulates
<1>1. /\ UNCHANGED <<nvm, job, answer>> /\ vm'.vapp = vm.vapp /\ vm.at = "running"
      /\ vm'.at # "read" \/ vm'.parts = <<>>
  BY DEF StorageRead, StorageWrite
<1>2. ReadingLeft
  BY <1>1 DEF ReadingLeft, Reading
<1> QED
  BY <1>1, <1>2, NothingWritten, Stutters DEF RunningLeft

LEMMA RefuseReadSimulates ==
  ASSUME StoreInv, JobInv, NEW s \in 0 .. MaxStorageSlots, RefuseRead(s)
  PROVE  Simulates
<1>1. Idle /\ vm.at = "running" /\ ~Usable(s) /\ answer' = Failed /\ UNCHANGED <<nvm, vm, job>>
  BY DEF RefuseRead
<1>2. vm.vapp \in Vapps /\ vm.vapp # NoVapp
  BY <1>1, VAppStoreAssumption DEF StoreInv, VmOK
<1>3. s < SlotsOf[vm.vapp] => RegistryNow[vm.vapp] = Absent
  <2>1. s < SlotsOf[vm.vapp] => \A i \in Initialized : nvm[i].value.vapp # vm.vapp
    BY <1>1 DEF Usable, IsRegistered, FindByHash
  <2> QED
    BY <1>1, <1>2, <2>1, NotRegistered, IdleNow
<1> QED
  BY <1>1, <1>2, <1>3, NothingWritten, ReadingIs, SimulatesRefuse DEF RunningLeft

\* The slot is that of the V-App's entry, or zero when the entry has been cleared.
LEMMA SlotNowIs ==
  ASSUME StoreInv, JobInv, Idle, vm.at = "read"
  PROVE  /\ vm.vapp # NoVapp /\ vm.slot \in 0 .. MaxStorageSlots
         /\ SlotNow = IF RegistryNow[vm.vapp] # Absent /\ vm.slot < SlotsOf[vm.vapp]
                      THEN RegistryNow[vm.vapp][vm.slot] ELSE Zero
<1>2. /\ vm.vapp \in Vapps /\ vm.vapp # NoVapp /\ vm.slot \in Slots /\ vm.entry \in Entries
      /\ vm.slot \in 0 .. MaxStorageSlots
  BY VAppStoreAssumption DEF StoreInv, VmOK, Slots
<1>4. /\ vm.slot < SlotsOf[vm.vapp]
      /\ \A j \in Initialized : nvm[j].value.vapp = vm.vapp <=> j = vm.entry
      /\ ~nvm[vm.entry].flag => nvm[vm.entry].value = VAppEntry(NoVapp)
  BY DEF JobInv, EntryOK
<1>5. CASE nvm[vm.entry].flag
  <2>1. vm.entry \in Initialized
    BY <1>2, <1>5 DEF Initialized, IsInitialized
  <2>2. Registry[vm.vapp] = Slice(vm.vapp, nvm[vm.entry].value.slots) /\ Registry[vm.vapp] # Absent
    BY <1>4, <2>1, RegisteredEntry
  <2>3. Registry[vm.vapp][vm.slot] = nvm[vm.entry].value.slots[vm.slot]
    BY <1>2, <1>4, <2>2, VAppStoreAssumption DEF Slice, Slots
  <2>4. RegistryNow = Registry
    BY IdleNow
  <2> QED
    BY <1>2, <1>4, <2>2, <2>3, <2>4 DEF SlotNow
<1>6. CASE ~nvm[vm.entry].flag
  <2>1. \A j \in Initialized : nvm[j].value.vapp # vm.vapp
    BY <1>4, <1>6 DEF Initialized, IsInitialized
  <2>2. RegistryNow[vm.vapp] = Absent
    BY <1>2, <2>1, NotRegistered, IdleNow
  <2>3. SlotNow = Zero
    BY <1>2, <1>4, <1>6 DEF VAppEntry, SlotNow
  <2> QED
    BY <1>2, <2>2, <2>3
<1> QED
  BY <1>5, <1>6

LEMMA ReadPartSimulates ==
  ASSUME StoreInv, JobInv, ReadPart
  PROVE  Simulates
<1>1. Idle /\ vm.at = "read" /\ vm.parts = <<>> /\ UNCHANGED <<nvm, job, answer>>
  BY DEF ReadPart
<1>2. PICK v : v = SlotNow
  OBVIOUS
<1>3. /\ vm'.at = "read" /\ vm'.vapp = vm.vapp /\ vm'.slot = vm.slot /\ vm'.parts = <<v>>
  BY <1>1, <1>2 DEF ReadPart, StoreInv, VmOK, ReadForm
<1>4. Reading = <<>> /\ Reading' = <<vm.slot, v>> /\ RunningLeft
  BY <1>1, <1>3 DEF Reading, RunningLeft
<1> QED
  BY <1>1, <1>2, <1>4, SlotNowIs, NothingWritten, SimulatesReadPart

LEMMA ReadSlotSimulates ==
  ASSUME StoreInv, JobInv, ReadSlot
  PROVE  Simulates
<1>1. /\ Idle /\ vm.at = "read" /\ UNCHANGED <<nvm, job>> /\ vm' = Running(vm.vapp)
  BY DEF ReadSlot
<1>2. PICK v : v = SlotNow
  OBVIOUS
<1>3. answer' = Append(vm.parts, v) /\ (vm.parts = <<>> \/ vm.parts = <<vm.parts[1]>>)
  BY <1>1, <1>2 DEF ReadSlot, StoreInv, VmOK, ReadForm
<1>4. RunningLeft /\ Reading' = <<>>
  BY <1>1, ReadingIs DEF RunningLeft, Running
<1>5. CASE vm.parts = <<>>
  <2>1. answer' = <<v>> /\ Reading = <<>>
    BY <1>3, <1>5 DEF Reading
  <2> QED
    BY <1>1, <1>2, <1>4, <2>1, SlotNowIs, NothingWritten, SimulatesRead
<1>6. CASE vm.parts # <<>>
  <2>1. PICK w : w = vm.parts[1]
    OBVIOUS
  <2>2. vm.parts = <<w>>
    BY <1>3, <1>6, <2>1
  <2>3. answer' = <<w, v>>
    BY <1>3, <2>2, AppendToOne
  <2>4. Reading = <<vm.slot, w>> /\ Reading # <<>>
    BY <1>1, <1>6, <2>1 DEF Reading
  <2> QED
    BY <1>1, <1>2, <1>4, <2>3, <2>4, SlotNowIs, NothingWritten, SimulatesRead
<1> QED
  BY <1>5, <1>6

LEMMA WriteSlotSimulates ==
  ASSUME JobInv, WriteSlot
  PROVE  Simulates
<1>1. Idle /\ UNCHANGED <<nvm, answer>>
  BY DEF WriteSlot
<1>2. CASE vm' = Home /\ UNCHANGED job
  BY <1>1, <1>2, NothingWritten, ReadingIs, SimulatesStop DEF Home
<1>3. CASE vm' = Running(vm.vapp) /\ \E todo : Begin("write", todo)
  <2>1. PICK kind, todo : kind = "write" /\ Begin(kind, todo)
    BY <1>3
  <2>2. RunningLeft /\ ReadingLeft
    BY <1>3, ReadingIs DEF RunningLeft, ReadingLeft, Running, WriteSlot
  <2>3. RegistryLeft /\ UninstallingLeft
    BY <1>1, <2>1, BeginSimulates
  <2> QED
    BY <1>1, <2>2, <2>3, Stutters
<1> QED
  BY <1>2, <1>3 DEF WriteSlot

LEMMA UninstallAllSimulates ==
  ASSUME StoreInv, JobInv, UninstallAll
  PROVE  Simulates
<1>1. Idle /\ UNCHANGED <<nvm, vm, answer>> /\ job'.kind \in {"none", "uninstall"}
  BY UninstallAllJob DEF UninstallAll
<1>2. RegistryLeft /\ RunningLeft
  BY <1>1, IdleNow, NowIs, RegistryUnchanged DEF RegistryLeft, RunningLeft
<1>3. ReadingLeft
  BY <1>1, ReadingIs
<1>4. job'.kind = "none" => UninstallingLeft
  BY <1>1, IdleNow DEF UninstallingLeft
<1> QED
  BY <1>1, <1>2, <1>3, <1>4, Stutters, SimulatesBeginUninstall

LEMMA NvmWriteSimulates ==
  ASSUME StoreInv, JobInv, NvmWrite
  PROVE  Simulates
<1>1. answer' = answer /\ RunningLeft /\ vm' = vm /\ ReadingLeft
  BY JobGoesOn, ReadingIs DEF RunningLeft
<1>2. CASE job.kind = "boot"
  <2>1. RegistryLeft /\ UninstallingLeft
    BY <1>2, BootingWrite, NowIs DEF RegistryLeft, UninstallingLeft
  <2> QED
    BY <1>1, <2>1, Stutters
<1>3. CASE job.kind = "register"
  <2>1. CASE job' = job
    <3>1. RegistryLeft /\ UninstallingLeft
      BY <1>3, <2>1, NowIs DEF RegistryLeft, UninstallingLeft
    <3> QED
      BY <1>1, <3>1, Stutters
  <2>2. CASE job' # job
    <3>1. PICK m \in Vapps :
            /\ job'.kind = "none" /\ vm = Home
            /\ Registry' = [w \in Vapps |-> IF w = m THEN [s \in 0 .. SlotsOf[m] - 1 |-> Zero]
                                            ELSE IF NameOf[w] = NameOf[m] THEN Absent
                                            ELSE job.before[w]]
      BY <1>3, <2>2, RegisterWrite
    <3>2. RegistryNow = job.before /\ RegistryNow' = Registry' /\ UninstallingLeft
      BY <1>3, <3>1, NowIs DEF UninstallingLeft
    <3>3. vm.vapp = NoVapp
      BY <3>1 DEF Home
    <3> QED
      BY <1>1, <3>1, <3>2, <3>3, SimulatesRegister
  <2> QED
    BY <2>1, <2>2
<1>4. CASE job.kind = "write"
  <2>1. CASE job' = job
    <3>1. RegistryLeft /\ UninstallingLeft
      BY <1>4, <2>1, NowIs DEF RegistryLeft, UninstallingLeft
    <3> QED
      BY <1>1, <3>1, Stutters
  <2>2. CASE job' # job
    <3>1. job'.kind = "none" /\ vm.vapp \in Vapps /\ job.before[vm.vapp] # Absent
      BY <1>4, <2>2, WriteWrite
    <3>2. PICK s \in 0 .. SlotsOf[vm.vapp] - 1, d \in Data :
            Registry' = [job.before EXCEPT ![vm.vapp][s] = d]
      BY <1>4, <2>2, WriteWrite
    <3>3. RegistryNow = job.before /\ RegistryNow' = Registry' /\ UninstallingLeft
      BY <1>4, <3>1, NowIs DEF UninstallingLeft
    <3>4. vm.vapp # NoVapp /\ s \in 0 .. MaxStorageSlots /\ s < SlotsOf[vm.vapp]
      BY <3>1, VAppStoreAssumption
    <3>5. Reading = <<>>
      BY <1>4, ReadingIs DEF JobInv, JobOK, WriteJob, Running
    <3> QED
      BY <1>1, <3>1, <3>2, <3>3, <3>4, <3>5, SimulatesPut
  <2> QED
    BY <2>1, <2>2
<1>5. CASE job.kind = "uninstall"
  <2>1. RegistryNow = Registry
    BY <1>5, NowIs
  <2>2. CASE Registry' = Registry /\ job'.kind \in {"none", "uninstall"}
    <3>1. RegistryLeft
      BY <2>1, <2>2, NowIs DEF RegistryLeft
    <3>2. job'.kind = "uninstall" => UninstallingLeft
      BY <1>5 DEF UninstallingLeft
    <3> QED
      BY <1>1, <2>2, <3>1, <3>2, Stutters, SimulatesEndUninstall DEF Disturbed
  <2>3. CASE /\ job'.kind = "uninstall"
             /\ \E m \in Vapps : Registry' = [Registry EXCEPT ![m] = Absent]
    <3>1. PICK m \in Vapps : RegistryNow' = [RegistryNow EXCEPT ![m] = Absent]
      BY <2>1, <2>3, NowIs
    <3>2. UninstallingLeft
      BY <1>5, <2>3 DEF UninstallingLeft
    <3> QED
      BY <1>1, <1>5, <3>1, <3>2, SimulatesUninstall DEF Disturbed
  <2> QED
    BY <1>5, <2>2, <2>3, UninstallingWrite
<1>6. job.kind \in {"boot", "register", "write", "uninstall"}
  BY DEF JobInv, JobOK, NvmWrite
<1> QED
  BY <1>2, <1>3, <1>4, <1>5, <1>6

\* What an interrupted operation may have taken away.
LEMMA Interrupted ==
  ASSUME JobInv, job.kind \in {"register", "write"}
  PROVE  \/ Registry = job.before
         \/ \E m \in Vapps : Registry = [job.before EXCEPT ![m] = Absent]
BY DEF JobInv, JobOK, RegisterJob, WriteJob, Replacing, WholeEntry

LEMMA PowerLossSimulates ==
  ASSUME StoreInv, JobInv, PowerLoss
  PROVE  Simulates
<1>1. /\ answer' = answer /\ vm'.vapp = NoVapp /\ job'.kind = "none" /\ powerLosses' > 0
      /\ Reading' = <<>> /\ Disturbed
  BY NoJobIs, ReadingIs DEF PowerLoss, Off, JobInv, JobOK, Disturbed
<1>2. Registry' = Registry
  BY PowerLossKeeps, RegistrySame, RegistryIs
<1>3. RegistryNow' = Registry
  BY <1>1, <1>2, NowIs
<1>4. CASE job.kind \in {"register", "write"}
  <2>1. UninstallingLeft /\ RegistryNow = job.before
    BY <1>1, <1>4, NowIs DEF UninstallingLeft
  <2>2. CASE Registry = job.before
    BY <1>1, <1>3, <2>1, <2>2, SimulatesStop DEF RegistryLeft
  <2>3. CASE \E m \in Vapps : Registry = [job.before EXCEPT ![m] = Absent]
    <3>1. PICK m \in Vapps : RegistryNow' = [RegistryNow EXCEPT ![m] = Absent]
      BY <1>3, <2>1, <2>3
    <3> QED
      BY <1>1, <2>1, <3>1, SimulatesUninstall
  <2> QED
    BY <1>4, <2>2, <2>3, Interrupted
<1>5. CASE job.kind \notin {"register", "write"}
  <2>1. RegistryLeft
    BY <1>3, <1>5, NowIs DEF RegistryLeft
  <2> QED
    BY <1>1, <2>1, SimulatesEndUninstall
<1> QED
  BY <1>4, <1>5
-----------------------------------------------------------------------------
LEMMA JobInvNext ==
  ASSUME StoreInv, JobInv, Next
  PROVE  JobInv'
<1>1. ASSUME NEW m \in Vapps, StartVApp(m)
      PROVE  JobInv'
  BY <1>1, QuietJob DEF StartVApp, Running
<1>2. ASSUME StopVApp
      PROVE  JobInv'
  BY <1>2, QuietJob DEF StopVApp, Home
<1>3. ASSUME NEW s \in 0 .. MaxStorageSlots, StorageRead(s)
      PROVE  JobInv'
  BY <1>3, EcallJob DEF StorageRead
<1>4. ASSUME NEW s \in 0 .. MaxStorageSlots, RefuseRead(s)
      PROVE  JobInv'
  BY <1>4, QuietJob DEF RefuseRead
<1>5. ASSUME NEW s \in 0 .. MaxStorageSlots, NEW d \in Data, StorageWrite(s, d)
      PROVE  JobInv'
  BY <1>5, EcallJob DEF StorageWrite
<1>6. ASSUME ReadSlot
      PROVE  JobInv'
  BY <1>6, QuietJob DEF ReadSlot, Running
<1>7. ASSUME ReadPart
      PROVE  JobInv'
  <2>1. /\ UNCHANGED <<nvm, writes, job, powerLosses>> /\ Idle
        /\ vm.at = "read" /\ vm'.vapp = vm.vapp /\ vm'.slot = vm.slot /\ vm'.entry = vm.entry
    BY <1>7 DEF ReadPart, StoreInv, VmOK, ReadForm
  <2>2. EntryOK'
    BY <2>1 DEF JobInv, EntryOK, Initialized, IsInitialized, Idle
  <2> QED
    BY <2>1, <2>2, StillIdle DEF JobInv
<1> QED
  BY <1>1, <1>2, <1>3, <1>4, <1>5, <1>6, <1>7, BootJob, RegisterVAppJob, WriteSlotJob, UninstallAllJob,
     NvmWriteJob, PowerLossJob DEF Next, Operate

LEMMA JobUnchanged ==
  ASSUME JobInv, UNCHANGED vars
  PROVE  JobInv'
<1>1. Registry' = Registry
  BY RegistryUnchanged DEF vars
<1>2. JobOK'
  <2>1. \A c, v : NewInPlace(c, v) => NewInPlace(c, v)'
    BY DEF vars, NewInPlace, Initialized, IsInitialized, NameIn
  <2>2. \A c, v : Initializing(c, v) => Initializing(c, v)'
    BY <2>1 DEF vars, Initializing
  <2>3. \A c, v : Updating(c, v) => Updating(c, v)'
    BY <2>1 DEF vars, Updating
  <2>4. \A c : Validating(c) => Validating(c)'
    BY <2>1 DEF vars, Validating, Whole
  <2>5. \A c, v, m : Replacing(c, v, m) => Replacing(c, v, m)'
    BY <1>1, <2>2, <2>3, <2>4 DEF vars, Replacing
  <2>6. RegisterJob => RegisterJob'
    BY <2>5 DEF vars, RegisterJob
  <2>7. WriteJob => WriteJob'
    BY <2>5 DEF vars, WriteJob
  <2>8. Clearing /\ Paired => Clearing' /\ Paired'
    BY DEF vars, Clearing, Paired
  <2> QED
    BY <2>2, <2>4, <2>6, <2>7, <2>8 DEF vars, JobInv, JobOK, Idle
<1>3. EntryOK'
  BY DEF vars, JobInv, EntryOK, Initialized, IsInitialized, Idle
<1> QED
  BY <1>2, <1>3 DEF JobInv

LEMMA StepSimulates ==
  ASSUME StoreInv, JobInv, Next
  PROVE  Simulates
<1>1. ASSUME NEW s \in 0 .. MaxStorageSlots, StorageRead(s)
      PROVE  Simulates
  BY <1>1, EcallSimulates
<1> QED
  BY <1>1, BootSimulates, RegisterVAppSimulates, StartSimulates, StopSimulates, EcallSimulates,
     RefuseReadSimulates, ReadPartSimulates, ReadSlotSimulates, WriteSlotSimulates, UninstallAllSimulates,
     NvmWriteSimulates, PowerLossSimulates DEF Next, Operate

LEMMA InitSimulates ==
  ASSUME Init
  PROVE  Lossy!Init
<1>1. \A i \in Initialized : FALSE
  BY DEF Init, Initialized, IsInitialized
<1>2. \A m \in Vapps : Registry[m] = Absent
  BY <1>1, NotRegistered
<1>3. RegistryNow = [m \in Vapps |-> Absent]
  BY <1>2, RegistryForm, NowIs, NoJobIs DEF Init
<1> QED
  BY <1>3, NoJobIs DEF Init, Lossy!Init, Off, Reading

\* Storage ECALLs, registrations and uninstallations (ecall.rs, vapp.rs), write by write, with
\* the menu in the middle of an ECALL and any number of losses of power: a V-App reads what it
\* wrote last, or nothing, and only a loss of power, an uninstallation or a V-App of its name
\* takes it away. A read that goes page by page is torn by nothing but an uninstallation in
\* its middle, and then its second part is zero.
THEOREM StorageRefinement == Spec => IsolatedStorage
<1>1. StoreInv /\ JobInv /\ [Next]_vars => StoreInv' /\ JobInv'
  BY OperateKeeps, PowerLossKeeps, StoreUnchanged, JobInvNext, JobUnchanged DEF Next
<1>2. StoreInv /\ JobInv /\ [Next]_vars => [Lossy!Next]_(Lossy!storageVars)
  <2>1. ASSUME StoreInv, JobInv, Next
        PROVE  [Lossy!Next]_(Lossy!storageVars)
    BY <2>1, StepSimulates DEF Simulates
  <2>2. ASSUME UNCHANGED vars
        PROVE  UNCHANGED Lossy!storageVars
    <3>1. UNCHANGED <<nvm, job, vm, answer>>
      BY <2>2 DEF vars
    <3>2. RegistryNow' = RegistryNow
      BY <3>1, NothingWritten DEF RegistryLeft
    <3> QED
      BY <3>1, <3>2 DEF Lossy!storageVars, Reading
  <2> QED
    BY <2>1, <2>2
<1>3. Init => StoreInv /\ JobInv /\ Lossy!Init
  BY StoreInvInit, JobInvInit, InitSimulates
<1> QED
  BY <1>1, <1>2, <1>3, PTL DEF Spec, IsolatedStorage, Lossy!Spec

-----------------------------------------------------------------------------
(* The inductive invariant of preloading, on top of that of the store.         *)

Genuine(key, m, k) == Hmac(key, m, k, PageHash(m, k))

Hashes == (Vapps \X (1 .. CodePages)) \cup {Wrong}

Hmacs == [key : Keys, vapp : Preloaded, index : Nat, hash : Hashes]

Files == [header : BOOLEAN, vapp : Preloaded, id : Keys, hmacs : Seq(Hmacs), torn : BOOLEAN]

Exchange == [at : {"preload"}, vapp : {NoVapp}, of : Preloaded, fed : Seq(Hashes), session : Nat]

GenuineHmacs(key, m, hmacs) == \A k \in DOMAIN hmacs : hmacs[k] = Genuine(key, m, k)

\* The client works while the device has power and its key; what the VM gave it is genuine.
ClientOK ==
  /\ client = Client(client.at, client.vapp, client.hmacs)
  /\ client # NoClient =>
       /\ vm # Off /\ nvm[AuthKey].flag
       /\ client.at \in {"register", "preload", "save", "write", "run"} /\ client.vapp \in Preloaded
  /\ client.at \in {"save", "write"} => DOMAIN client.hmacs = 1 .. CodePages
  /\ client.at \in {"save", "write", "run"} =>
       GenuineHmacs(nvm[AuthKey].value, client.vapp, client.hmacs)

\* The file, whole or not, holds genuine HMACs of the V-App and the key it names.
FileOK ==
  /\ file # NoFile \/ client.at = "write" =>
       /\ file \in Files
       /\ Len(file.hmacs) <= CodePages
       /\ GenuineHmacs(file.id, file.vapp, file.hmacs)
  /\ client.at = "write" => file.vapp = client.vapp /\ file.id = nvm[AuthKey].value

\* The exchange under way: its mask is not given away, and what it sent is what it was fed.
ExchangeOK ==
  vm.at = "preload" =>
    /\ vm \in Exchange
    /\ vm.session \notin released
    /\ client.at = "preload" /\ client.vapp = vm.of
    /\ \A e \in masked : e.session = vm.session =>
         /\ e.hmac.vapp = vm.of
         /\ e.hmac.index \in 1 .. Len(vm.fed) /\ e.hmac.hash = vm.fed[e.hmac.index]

PreloadInv == StoreInv /\ ClientOK /\ FileOK /\ ExchangeOK /\ UnmaskedAreGenuine
LEMMA HeadOfWrites ==
  ASSUME StoreInv, ~Idle
  PROVE  Head(writes) = writes[1] /\ Head(writes).cell \in Cells
<1>1. ASSUME NEW c \in Cells, NEW v \in WholeIn(c), Initializing(c, v)
      PROVE  Head(writes) = writes[1] /\ Head(writes).cell \in Cells
  <2>1. writes = <<Write(c, "value", v), Write(c, "flag", TRUE)>>
    BY <1>1 DEF Initializing, Initialize
  <2>2. Head(writes) = Write(c, "value", v) /\ writes[1] = Write(c, "value", v)
    BY <2>1
  <2> QED
    BY <2>2 DEF Write
<1>2. ASSUME NEW c \in Entries, NEW v \in WholeIn(c), Updating(c, v)
      PROVE  Head(writes) = writes[1] /\ Head(writes).cell \in Cells
  <2>1. writes = <<Write(c, "flag", FALSE), Write(c, "value", v), Write(c, "flag", TRUE)>>
    BY <1>2 DEF Updating, Update
  <2>2. Head(writes) = Write(c, "flag", FALSE) /\ writes[1] = Write(c, "flag", FALSE)
    BY <2>1
  <2> QED
    BY <2>2 DEF Write, Cells
<1>3. ASSUME NEW c \in Cells, Validating(c)
      PROVE  Head(writes) = writes[1] /\ Head(writes).cell \in Cells
  <2>1. Head(writes) = Write(c, "flag", TRUE) /\ writes[1] = Write(c, "flag", TRUE)
    BY <1>3, OneWrite, Zenon DEF Validating
  <2> QED
    BY <2>1 DEF Write
<1>4. ASSUME Clearing
      PROVE  Head(writes) = writes[1] /\ Head(writes).cell \in Cells
  <2>1. Len(writes) \in Nat /\ writes = [k \in 1 .. Len(writes) |-> writes[k]]
    BY <1>4 DEF Clearing
  <2>2. 1 \in 1 .. Len(writes) /\ Head(writes) = writes[1]
    BY <2>1 DEF Idle
  <2>3. ClearsFlag(writes[1]) \/ ClearsValue(writes[1])
    BY <1>4, <2>2, Zenon DEF Clearing
  <2> QED
    BY <2>2, <2>3 DEF ClearsFlag, ClearsValue, Cells
<1> QED
  BY <1>1, <1>2, <1>3, <1>4 DEF StoreInv, WritesOK

\* The key, once it is there, stays as long as the device has power.
LEMMA KeyStays ==
  ASSUME StoreInv, Operate, nvm[AuthKey].flag
  PROVE  nvm'[AuthKey] = nvm[AuthKey]
<1>1. CASE NvmWrite
  <2>1. Head(writes).cell # AuthKey /\ Head(writes).cell \in Cells
    BY <1>1, HeadOfWrites DEF StoreInv, KeyOK, NvmWrite
  <2>2. nvm' = Written /\ nvm \in [Cells -> [flag : BOOLEAN, value : AnyEntry \cup Keys \cup {Zero, Garbage}]]
    BY <1>1 DEF NvmWrite, StoreInv, NvmOK
  <2> QED
    BY <2>1, <2>2 DEF Written, Cells
<1>2. CASE UNCHANGED nvm
  BY <1>2
<1> QED
  BY <1>1, <1>2 DEF Operate, Boot, RegisterVApp, StartVApp, StopVApp, StorageRead, RefuseRead,
                    StorageWrite, ReadPart, ReadSlot, WriteSlot, UninstallAll

LEMMA KeyThere ==
  ASSUME StoreInv, Idle, vm # Off
  PROVE  nvm[AuthKey].flag /\ nvm[AuthKey].value \in Keys
BY DEF StoreInv, KeyOK, NvmOK, Whole, WholeIn, Cells

\* Nothing but the exchange itself, the power and the client goes on with a V-App's preloading.
LEMMA VmStays ==
  ASSUME Operate, StoreInv
  PROVE  /\ vm # Off => vm' # Off
         /\ vm.at = "preload" \/ vm'.at = "preload" => vm' = vm
<1>1. CASE ReadPart
  <2>1. vm = [at |-> "read", vapp |-> vm.vapp, slot |-> vm.slot, entry |-> vm.entry, parts |-> vm.parts]
    BY <1>1 DEF ReadPart, StoreInv, VmOK, ReadForm
  <2>2. vm' = [vm EXCEPT !.parts = <<SlotNow>>]
    BY <1>1 DEF ReadPart
  <2>3. vm.at = "read" /\ vm'.at = "read"
    BY <2>1, <2>2
  <2> QED
    BY <2>3 DEF Off
<1>2. CASE ~ReadPart
  BY <1>2 DEF Operate, Boot, RegisterVApp, StartVApp, StopVApp, StorageRead, RefuseRead,
              StorageWrite, ReadSlot, WriteSlot, UninstallAll, NvmWrite, Off, Home, Running
<1> QED
  BY <1>1, <1>2

-----------------------------------------------------------------------------
LEMMA PreloadInvInit == Init /\ PreloadInit => PreloadInv
<1> SUFFICES ASSUME Init, PreloadInit PROVE PreloadInv
  OBVIOUS
<1>1. StoreInv
  BY StoreInvInit
<1>2. ClientOK /\ FileOK /\ UnmaskedAreGenuine
  BY DEF PreloadInit, ClientOK, FileOK, UnmaskedAreGenuine, NoClient, Client
<1>3. ExchangeOK
  BY DEF Init, ExchangeOK, Off
<1> QED
  BY <1>1, <1>2, <1>3 DEF PreloadInv

\* What goes on beside preloading, and leaves the key.
LEMMA Beside ==
  ASSUME PreloadInv, StoreInv', UNCHANGED preloadVars,
         nvm[AuthKey].flag => nvm'[AuthKey] = nvm[AuthKey],
         vm # Off => vm' # Off,
         vm.at = "preload" \/ vm'.at = "preload" => vm' = vm
  PROVE  PreloadInv'
<1>1. client' = client /\ file' = file /\ masked' = masked /\ released' = released
  BY DEF preloadVars
<1>2. ClientOK'
  <2>1. CASE client = NoClient
    BY <1>1, <2>1 DEF PreloadInv, ClientOK, NoClient
  <2>2. CASE client # NoClient
    BY <1>1, <2>2 DEF PreloadInv, ClientOK
  <2> QED
    BY <2>1, <2>2
<1>3. FileOK'
  <2>1. client.at = "write" => client # NoClient
    BY DEF NoClient
  <2>2. client.at = "write" => nvm'[AuthKey] = nvm[AuthKey]
    BY <2>1 DEF PreloadInv, ClientOK
  <2> QED
    BY <1>1, <2>2 DEF PreloadInv, FileOK
<1>4. ExchangeOK'
  BY <1>1 DEF PreloadInv, ExchangeOK
<1>5. UnmaskedAreGenuine'
  BY <1>1 DEF PreloadInv, UnmaskedAreGenuine
<1> QED
  BY <1>2, <1>3, <1>4, <1>5 DEF PreloadInv

LEMMA OperateBeside ==
  ASSUME PreloadInv, Operate, UNCHANGED preloadVars
  PROVE  PreloadInv'
<1>1. StoreInv /\ StoreInv'
  BY OperateKeeps DEF PreloadInv
<1> QED
  BY <1>1, KeyStays, VmStays, Beside
\* The client's program is not running, or ends.
LEMMA WithoutClient ==
  ASSUME PreloadInv, StoreInv', client' = NoClient, UNCHANGED <<file, masked, released>>,
         vm'.at # "preload"
  PROVE  PreloadInv'
<1>1. ClientOK' /\ client'.at # "write"
  BY DEF ClientOK, NoClient, Client
<1>2. FileOK'
  BY <1>1 DEF PreloadInv, FileOK
<1>3. ExchangeOK'
  BY DEF ExchangeOK
<1>4. UnmaskedAreGenuine'
  BY DEF PreloadInv, UnmaskedAreGenuine
<1> QED
  BY <1>1, <1>2, <1>3, <1>4 DEF PreloadInv

LEMMA ReinstallKeeps ==
  ASSUME PreloadInv, Reinstall
  PROVE  PreloadInv'
<1>1. vm = Off /\ vm' = Off /\ writes = <<>> /\ writes' = <<>> /\ usedKeys' = {} /\ UNCHANGED preloadVars
  BY DEF Reinstall, Idle
<1>2. DOMAIN nvm = Cells
  BY DEF PreloadInv, StoreInv, NvmOK
<1>3. VAppEntry(NoVapp) \in AnyEntry
  BY DEF VAppEntry, AnyEntry
<1>4. \A c \in Cells : ~nvm'[c].flag
  BY <1>2 DEF Reinstall
<1>5. Initialized' = {}
  BY <1>4 DEF Initialized, IsInitialized, Cells
<1>6. NvmOK'
  BY <1>2, <1>3, <1>4, VAppStoreAssumption DEF Reinstall, NvmOK, Cells
<1>7. StoreInv'
  BY <1>1, <1>5, <1>6, BeginNothing
     DEF PreloadInv, StoreInv, VmOK, KeyOK, OneEntryPerName, Idle, Off
<1>8. client' = NoClient /\ vm'.at # "preload" /\ UNCHANGED <<file, masked, released>>
  BY <1>1 DEF PreloadInv, ClientOK, Off, preloadVars
<1> QED
  BY <1>7, <1>8, WithoutClient

LEMMA ClientEndKeeps ==
  ASSUME PreloadInv, ClientCrash \/ PowerLossMeanwhile \/ RunVApp
  PROVE  PreloadInv'
<1>1. CASE ClientCrash
  <2>1. StoreInv' /\ vm'.at # "preload" /\ client' = NoClient /\ UNCHANGED <<file, masked, released>>
    BY <1>1, StoreUnchanged DEF PreloadInv, ClientCrash, vars
  <2> QED
    BY <2>1, WithoutClient
<1>2. CASE PowerLossMeanwhile
  <2>1. StoreInv' /\ vm'.at # "preload" /\ client' = NoClient /\ UNCHANGED <<file, masked, released>>
    BY <1>2, PowerLossKeeps DEF PreloadInv, PowerLossMeanwhile, PowerLoss, Off
  <2> QED
    BY <2>1, WithoutClient
<1>3. CASE RunVApp
  <2>1. client.vapp \in Vapps
    BY <1>3, PreloadAssumption DEF RunVApp, PreloadInv, ClientOK, NoClient
  <2>2. StoreInv' /\ vm'.at # "preload" /\ client' = NoClient /\ UNCHANGED <<file, masked, released>>
    BY <1>3, <2>1, StartKeeps DEF PreloadInv, RunVApp, StartVApp, Running
  <2> QED
    BY <2>2, WithoutClient
<1> QED
  BY <1>1, <1>2, <1>3

LEMMA RefuseHashesKeeps ==
  ASSUME PreloadInv, NEW m, NEW batch, RefuseHashes(m, batch)
  PROVE  PreloadInv'
<1>1. VmOK' /\ vm # Off /\ vm'.at # "preload"
  BY DEF RefuseHashes, VmOK, Home, Off
<1>2. StoreInv'
  BY <1>1, VmStepKeeps DEF RefuseHashes, PreloadInv
<1> QED
  BY <1>1, <1>2, WithoutClient DEF RefuseHashes

LEMMA BeginPreloadKeeps ==
  ASSUME PreloadInv, BeginPreload
  PROVE  PreloadInv'
<1>1. PICK s \in 1 .. MaxPreloads :
        /\ s \notin Sessions
        /\ vm' = [at |-> "preload", vapp |-> NoVapp, of |-> client.vapp, fed |-> <<>>, session |-> s]
  BY DEF BeginPreload
<1>2. vm = Home /\ client.at = "preload" /\ UNCHANGED <<nvm, writes, usedKeys, client, file, masked, released>>
  BY DEF BeginPreload, preloadVars
<1>3. VmOK' /\ vm # Off /\ vm' # Off
  BY <1>1, <1>2 DEF VmOK, Home, Off
<1>4. StoreInv'
  BY <1>2, <1>3, VmStepKeeps DEF PreloadInv
<1>5. ClientOK' /\ FileOK' /\ UnmaskedAreGenuine'
  BY <1>2, <1>3 DEF PreloadInv, ClientOK, FileOK, UnmaskedAreGenuine
<1>6. ExchangeOK'
  <2>1. client.vapp \in Preloaded
    BY <1>2 DEF PreloadInv, ClientOK, NoClient
  <2>2. vm' \in Exchange
    BY <1>1, <2>1 DEF Exchange
  <2>3. s \notin released /\ \A e \in masked : e.session # s
    BY <1>1 DEF Sessions
  <2> QED
    BY <1>1, <1>2, <2>2, <2>3 DEF ExchangeOK
<1> QED
  BY <1>4, <1>5, <1>6 DEF PreloadInv

LEMMA FeedHashesKeeps ==
  ASSUME PreloadInv, NEW m \in Preloaded, NEW batch \in Batches(m), FeedHashes(m, batch)
  PROVE  PreloadInv'
<1>1. /\ Idle /\ vm.at = "preload" /\ vm.of = m
      /\ UNCHANGED <<nvm, writes, usedKeys, client, file, released>>
      /\ vm' = [vm EXCEPT !.fed = @ \o batch]
  BY DEF FeedHashes
<1>2. /\ vm \in Exchange /\ vm.session \notin released
      /\ client.at = "preload" /\ client.vapp = vm.of
  BY <1>1 DEF PreloadInv, ExchangeOK
<1>3. batch \in Seq(Hashes)
  <2>1. PICK n \in 0 .. MaxHashes :
          batch \in [1 .. n -> {PageHash(m, k) : k \in 1 .. CodePages} \cup {Wrong}]
    BY DEF Batches
  <2>2. {PageHash(m, k) : k \in 1 .. CodePages} \cup {Wrong} \subseteq Hashes
    BY PreloadAssumption DEF PageHash, Hashes
  <2> QED
    BY <2>1, <2>2, PreloadAssumption
<1> DEFINE fed == vm.fed \o batch
<1>4. /\ vm.fed \in Seq(Hashes) /\ fed \in Seq(Hashes) /\ Len(fed) = Len(vm.fed) + Len(batch)
      /\ \A k \in 1 .. Len(vm.fed) : fed[k] = vm.fed[k]
      /\ \A k \in 1 .. Len(batch) : fed[Len(vm.fed) + k] = batch[k]
      /\ DOMAIN batch = 1 .. Len(batch) /\ Len(batch) \in Nat /\ Len(vm.fed) \in Nat
  BY <1>2, <1>3 DEF Exchange
<1>5. /\ vm' \in Exchange /\ vm'.at = "preload" /\ vm'.of = m /\ vm'.session = vm.session
      /\ vm'.fed = fed
  BY <1>1, <1>2, <1>4 DEF Exchange
<1> HIDE DEF fed
<1>6. VmOK' /\ vm # Off /\ vm' # Off
  BY <1>1, <1>5 DEF VmOK, Off
<1>7. StoreInv'
  BY <1>1, <1>6, VmStepKeeps DEF PreloadInv
<1>8. ClientOK' /\ FileOK'
  BY <1>1, <1>6 DEF PreloadInv, ClientOK, FileOK
<1>9. ASSUME NEW e \in masked'
      PROVE  \/ e \in masked
             \/ /\ e.session = vm.session /\ e.hmac.vapp = m
                /\ e.hmac.index \in 1 .. Len(fed) /\ e.hmac.hash = fed[e.hmac.index]
  <2>1. CASE e \in masked
    BY <2>1
  <2>2. CASE e \notin masked
    <3>1. PICK k \in DOMAIN batch :
            e = [session |-> vm.session,
                 hmac |-> Hmac(nvm[AuthKey].value, m, Len(vm.fed) + k, batch[k])]
      BY <2>2 DEF FeedHashes
    <3>2. /\ e.session = vm.session /\ e.hmac.vapp = m
          /\ e.hmac.index = Len(vm.fed) + k /\ e.hmac.hash = batch[k]
      BY <3>1 DEF Hmac
    <3> QED
      BY <1>4, <3>1, <3>2
  <2> QED
    BY <2>1, <2>2
<1>10. ExchangeOK'
  <2>1. ASSUME NEW e \in masked', e.session = vm.session
        PROVE  /\ e.hmac.vapp = m
               /\ e.hmac.index \in 1 .. Len(fed) /\ e.hmac.hash = fed[e.hmac.index]
    <3>1. CASE e \in masked
      BY <1>1, <1>4, <2>1, <3>1 DEF PreloadInv, ExchangeOK
    <3> QED
      BY <1>9, <2>1, <3>1
  <2> QED
    BY <1>1, <1>2, <1>5, <2>1 DEF ExchangeOK
<1>11. UnmaskedAreGenuine'
  BY <1>1, <1>2, <1>9 DEF PreloadInv, UnmaskedAreGenuine
<1> QED
  BY <1>7, <1>8, <1>10, <1>11 DEF PreloadInv
\* The whole code was fed, and it is the V-App's: every HMAC of the exchange is genuine.
LEMMA ReleaseMaskKeeps ==
  ASSUME PreloadInv, ReleaseMask
  PROVE  PreloadInv'
<1>1. /\ Idle /\ vm.at = "preload" /\ vm' = Home
      /\ Len(vm.fed) = CodePages /\ vm.fed = CodeRoot(vm.of)
      /\ released' = released \cup {vm.session}
      /\ UNCHANGED <<nvm, writes, usedKeys, file, masked>>
  BY DEF ReleaseMask
<1>2. /\ vm \in Exchange /\ client.at = "preload" /\ client.vapp = vm.of /\ vm.of \in Preloaded
      /\ client # NoClient
  BY <1>1 DEF PreloadInv, ExchangeOK, Exchange, NoClient
<1>3. \A k \in 1 .. CodePages : vm.fed[k] = PageHash(vm.of, k)
  BY <1>1 DEF CodeRoot
<1>4. VmOK' /\ vm # Off /\ vm' # Off /\ vm'.at # "preload"
  BY <1>1 DEF VmOK, Home, Off
<1>5. StoreInv'
  BY <1>1, <1>4, VmStepKeeps DEF PreloadInv
<1> DEFINE hmacs == [k \in 1 .. CodePages |-> Hmac(nvm[AuthKey].value, vm.of, k, vm.fed[k])]
<1>6. client' = Client("save", client.vapp, hmacs)
  <2>1. client = [at |-> client.at, vapp |-> client.vapp, hmacs |-> client.hmacs]
    BY DEF PreloadInv, ClientOK, Client
  <2>2. client' = [client EXCEPT !.at = "save", !.hmacs = hmacs]
    BY DEF ReleaseMask
  <2> HIDE DEF hmacs
  <2> QED
    BY <2>1, <2>2 DEF Client
<1>7. DOMAIN hmacs = 1 .. CodePages /\ GenuineHmacs(nvm[AuthKey].value, vm.of, hmacs)
  BY <1>3 DEF GenuineHmacs, Genuine
<1> HIDE DEF hmacs
<1>8. client'.at = "save" /\ client'.vapp = client.vapp /\ client'.hmacs = hmacs
  BY <1>6 DEF Client
<1>9. ClientOK'
  BY <1>1, <1>2, <1>4, <1>6, <1>7, <1>8 DEF PreloadInv, ClientOK, GenuineHmacs
<1>10. FileOK'
  BY <1>1, <1>2, <1>8 DEF PreloadInv, FileOK
<1>11. UnmaskedAreGenuine'
  BY <1>1, <1>3 DEF PreloadInv, ExchangeOK, UnmaskedAreGenuine
<1>12. ExchangeOK'
  BY <1>4 DEF ExchangeOK
<1> QED
  BY <1>5, <1>9, <1>10, <1>11, <1>12 DEF PreloadInv

\* A step of the client alone, which does not touch the file.
LEMMA ClientStep ==
  ASSUME PreloadInv, StoreInv', ClientOK', UNCHANGED <<nvm, file, masked, released>>,
         vm' = vm, vm.at # "preload", client'.at # "write"
  PROVE  PreloadInv'
<1>1. FileOK' /\ UnmaskedAreGenuine'
  BY DEF PreloadInv, FileOK, UnmaskedAreGenuine
<1>2. ExchangeOK'
  BY DEF ExchangeOK
<1> QED
  BY <1>1, <1>2 DEF PreloadInv

LEMMA UseHmacsKeeps ==
  ASSUME PreloadInv, NEW m \in Preloaded, UseHmacs(m)
  PROVE  PreloadInv'
<1>1. Idle /\ vm = Home /\ UNCHANGED <<vars, file, masked, released>>
  BY DEF UseHmacs
<1>2. StoreInv' /\ UNCHANGED <<nvm, vm>>
  BY <1>1, StoreUnchanged DEF PreloadInv, vars
<1>3. vm # Off /\ vm.at # "preload" /\ nvm[AuthKey].flag
  <2>1. vm # Off /\ vm.at # "preload"
    BY <1>1 DEF Home, Off
  <2> QED
    BY <1>1, <2>1, KeyThere DEF PreloadInv
<1>4. CASE Loads(m) /\ client' = Client("run", m, file.hmacs)
  <2>1. client'.at = "run" /\ client'.vapp = m /\ client'.hmacs = file.hmacs
    BY <1>4 DEF Client
  <2>2. GenuineHmacs(nvm[AuthKey].value, m, file.hmacs)
    BY <1>4 DEF Loads, PreloadInv, FileOK
  <2>3. ClientOK'
    BY <1>2, <1>3, <1>4, <2>1, <2>2 DEF ClientOK, GenuineHmacs
  <2> QED
    BY <1>1, <1>2, <1>3, <2>1, <2>3, ClientStep
<1>5. CASE client' = Client("register", m, <<>>)
  <2>1. client'.at = "register" /\ client'.vapp = m /\ client'.hmacs = <<>>
    BY <1>5 DEF Client
  <2>2. ClientOK'
    BY <1>2, <1>3, <1>5, <2>1 DEF ClientOK
  <2> QED
    BY <1>1, <1>2, <1>3, <2>1, <2>2, ClientStep
<1> QED
  BY <1>4, <1>5 DEF UseHmacs

LEMMA ClientAt ==
  ASSUME ClientOK, NEW a, client' = [client EXCEPT !.at = a]
  PROVE  /\ client' = Client(a, client.vapp, client.hmacs)
         /\ client'.at = a /\ client'.vapp = client.vapp /\ client'.hmacs = client.hmacs
<1>1. client = [at |-> client.at, vapp |-> client.vapp, hmacs |-> client.hmacs]
  BY DEF ClientOK, Client
<1> QED
  BY <1>1 DEF Client

LEMMA RegisterFirstKeeps ==
  ASSUME PreloadInv, RegisterFirst
  PROVE  PreloadInv'
<1>1. /\ Idle /\ vm = Home /\ client.at = "register"
      /\ client' = [client EXCEPT !.at = "preload"]
      /\ UNCHANGED <<nvm, vm, usedKeys, file, masked, released>>
  BY DEF RegisterFirst
<1>2. client # NoClient /\ client.vapp \in Vapps /\ StoreInv /\ ClientOK
  BY <1>1, PreloadAssumption DEF PreloadInv, ClientOK, NoClient
<1>3. client'.at = "preload" /\ client'.vapp = client.vapp /\ client' = Client("preload", client.vapp, client.hmacs)
      /\ client'.hmacs = client.hmacs
  BY <1>1, <1>2, ClientAt
<1>4. StoreInv'
  <2>1. CASE Register(client.vapp)
    BY <1>1, <1>2, <2>1, RegisterKeeps
  <2>2. CASE UNCHANGED writes
    <3>1. vm # Off /\ VmOK'
      BY <1>1 DEF Home, Off, VmOK
    <3> QED
      BY <1>1, <1>2, <2>2, <3>1, VmStepKeeps
  <2> QED
    BY <2>1, <2>2 DEF RegisterFirst
<1>5. ClientOK'
  BY <1>1, <1>2, <1>3 DEF ClientOK
<1>6. vm.at # "preload"
  BY <1>1 DEF Home
<1> QED
  BY <1>1, <1>3, <1>4, <1>5, <1>6, ClientStep

LEMMA RegisterThenRunKeeps ==
  ASSUME PreloadInv, RegisterThenRun
  PROVE  PreloadInv'
<1>1. client.vapp \in Vapps
  BY PreloadAssumption DEF RegisterThenRun, PreloadInv, ClientOK, NoClient
<1>2. StoreInv'
  BY <1>1, RegisterKeeps DEF RegisterThenRun, PreloadInv
<1> QED
  BY <1>2, Beside DEF RegisterThenRun

LEMMA CreateFileKeeps ==
  ASSUME PreloadInv, CreateFile
  PROVE  PreloadInv'
<1>1. /\ client.at = "save" /\ client' = [client EXCEPT !.at = "write"] /\ UNCHANGED <<masked, released>>
      /\ file' = [header |-> FALSE, vapp |-> client.vapp, id |-> nvm[AuthKey].value,
                  hmacs |-> <<>>, torn |-> FALSE]
  BY DEF CreateFile
<1>2. StoreInv' /\ UNCHANGED <<nvm, vm>>
  BY StoreUnchanged DEF CreateFile, PreloadInv, vars
<1>3. ClientOK /\ client # NoClient /\ vm.at # "preload"
  BY <1>1 DEF PreloadInv, ExchangeOK, NoClient
<1>4. client'.at = "write" /\ client'.vapp = client.vapp /\ client' = Client("write", client.vapp, client.hmacs)
      /\ client'.hmacs = client.hmacs
  BY <1>1, <1>3, ClientAt
<1>5. ClientOK'
  BY <1>1, <1>2, <1>3, <1>4 DEF ClientOK
<1>6. FileOK'
  <2>1. nvm[AuthKey].value \in Keys /\ client.vapp \in Preloaded
    BY <1>3 DEF PreloadInv, ClientOK, StoreInv, NvmOK, Whole, WholeIn, Cells
  <2>2. /\ file'.vapp = client.vapp /\ file'.id = nvm[AuthKey].value /\ file'.hmacs = <<>>
        /\ Len(file'.hmacs) = 0 /\ DOMAIN file'.hmacs = {} /\ file' \in Files
    BY <1>1, <2>1 DEF Files
  <2> QED
    BY <1>2, <1>4, <2>2, PreloadAssumption DEF FileOK, GenuineHmacs
<1>7. UnmaskedAreGenuine' /\ ExchangeOK'
  BY <1>1, <1>2, <1>3 DEF PreloadInv, UnmaskedAreGenuine, ExchangeOK
<1> QED
  BY <1>2, <1>5, <1>6, <1>7 DEF PreloadInv

LEMMA WriteFileKeeps ==
  ASSUME PreloadInv, WriteFile
  PROVE  PreloadInv'
<1>1. client.at = "write" /\ UNCHANGED <<client, masked, released>>
  BY DEF WriteFile
<1>2. StoreInv' /\ UNCHANGED <<nvm, vm>>
  BY StoreUnchanged DEF WriteFile, PreloadInv, vars
<1>3. /\ client # NoClient /\ DOMAIN client.hmacs = 1 .. CodePages
      /\ GenuineHmacs(nvm[AuthKey].value, client.vapp, client.hmacs)
  BY <1>1 DEF PreloadInv, ClientOK, NoClient
<1>4. /\ file \in Files /\ Len(file.hmacs) <= CodePages
      /\ GenuineHmacs(file.id, file.vapp, file.hmacs)
      /\ file.vapp = client.vapp /\ file.id = nvm[AuthKey].value
  BY <1>1 DEF PreloadInv, FileOK
<1>5. FileOK'
  <2>1. CASE file' = [file EXCEPT !.header = TRUE] \/ file' = [file EXCEPT !.torn = TRUE]
    <3>1. file'.vapp = file.vapp /\ file'.id = file.id /\ file'.hmacs = file.hmacs /\ file' \in Files
      BY <1>4, <2>1 DEF Files
    <3> QED
      BY <1>1, <1>2, <1>4, <3>1 DEF FileOK
  <2>2. CASE /\ Len(file.hmacs) < CodePages
             /\ file' = [file EXCEPT !.torn = FALSE,
                                     !.hmacs = Append(@, client.hmacs[Len(file.hmacs) + 1])]
    <3> DEFINE n == Len(file.hmacs)
               h == client.hmacs[n + 1]
    <3>1. /\ n \in Nat /\ n < CodePages /\ CodePages \in Nat /\ n + 1 \in 1 .. CodePages
          /\ file.hmacs \in Seq(Hmacs) /\ file.vapp \in Preloaded /\ file.id \in Keys
      BY <1>4, <2>2, PreloadAssumption DEF Files
    <3>2. h = Genuine(file.id, file.vapp, n + 1)
      BY <1>3, <1>4, <3>1 DEF GenuineHmacs
    <3>3. h \in Hmacs
      BY <3>1, <3>2, PreloadAssumption DEF Genuine, Hmac, PageHash, Hmacs, Hashes
    <3>4. file' = [file EXCEPT !.torn = FALSE, !.hmacs = Append(file.hmacs, h)]
      BY <2>2
    <3> HIDE DEF h
    <3>5. /\ Append(file.hmacs, h) \in Seq(Hmacs) /\ Len(Append(file.hmacs, h)) = n + 1
          /\ DOMAIN Append(file.hmacs, h) = 1 .. n + 1
          /\ \A k \in 1 .. n : Append(file.hmacs, h)[k] = file.hmacs[k]
          /\ Append(file.hmacs, h)[n + 1] = h /\ DOMAIN file.hmacs = 1 .. n
      BY <3>1, <3>3
    <3>6. GenuineHmacs(file.id, file.vapp, Append(file.hmacs, h))
      BY <1>4, <3>1, <3>2, <3>5 DEF GenuineHmacs
    <3>7. /\ file'.vapp = file.vapp /\ file'.id = file.id /\ file'.hmacs = Append(file.hmacs, h)
          /\ file' \in Files
      BY <1>4, <3>4, <3>5 DEF Files
    <3> QED
      BY <1>1, <1>2, <1>4, <3>1, <3>5, <3>6, <3>7 DEF FileOK
  <2> QED
    BY <2>1, <2>2 DEF WriteFile
<1>6. ClientOK' /\ UnmaskedAreGenuine' /\ ExchangeOK'
  BY <1>1, <1>2 DEF PreloadInv, ClientOK, UnmaskedAreGenuine, ExchangeOK
<1> QED
  BY <1>2, <1>5, <1>6 DEF PreloadInv

LEMMA RunWithHmacsKeeps ==
  ASSUME PreloadInv, RunWithHmacs
  PROVE  PreloadInv'
<1>1. /\ client.at \in {"save", "write"} /\ client' = [client EXCEPT !.at = "run"]
      /\ UNCHANGED <<file, masked, released>>
  BY DEF RunWithHmacs
<1>2. StoreInv' /\ UNCHANGED <<nvm, vm>>
  BY StoreUnchanged DEF RunWithHmacs, PreloadInv, vars
<1>3. ClientOK /\ client # NoClient /\ vm.at # "preload"
  BY <1>1 DEF PreloadInv, ExchangeOK, NoClient
<1>4. client'.at = "run" /\ client'.vapp = client.vapp /\ client' = Client("run", client.vapp, client.hmacs)
      /\ client'.hmacs = client.hmacs
  BY <1>1, <1>3, ClientAt
<1>5. ClientOK'
  BY <1>1, <1>2, <1>3, <1>4 DEF ClientOK
<1> QED
  BY <1>1, <1>2, <1>3, <1>4, <1>5, ClientStep
LEMMA PreloadNextKeeps ==
  ASSUME PreloadInv, PreloadNext
  PROVE  PreloadInv'
BY BeginPreloadKeeps, FeedHashesKeeps, RefuseHashesKeeps, ReleaseMaskKeeps, UseHmacsKeeps,
   RegisterFirstKeeps, RegisterThenRunKeeps, CreateFileKeeps, WriteFileKeeps, RunWithHmacsKeeps,
   ClientEndKeeps, ReinstallKeeps DEF PreloadNext

LEMMA PreloadUnchanged ==
  ASSUME PreloadInv, UNCHANGED <<vars, preloadVars>>
  PROVE  PreloadInv'
<1>1. StoreInv' /\ UNCHANGED <<nvm, vm>>
  BY StoreUnchanged DEF PreloadInv, vars
<1> QED
  BY <1>1, Beside

LEMMA PreloadInvImplies ==
  ASSUME PreloadInv
  PROVE  UnmaskedAreGenuine /\ HmacsAreCurrent
BY DEF PreloadInv, ClientOK, GenuineHmacs, Genuine, HmacsAreCurrent

LEMMA PreloadInvariance == SystemSpec => []PreloadInv
<1>1. PreloadInv /\ [SystemNext]_<<vars, preloadVars>> => PreloadInv'
  BY PreloadNextKeeps, OperateBeside, PreloadUnchanged DEF SystemNext
<1> QED
  BY PreloadInvInit, <1>1, PTL DEF SystemSpec

\* Of every number of exchanges, by a client that may send any hashes, crash between any two
\* writes of the file and find a file of any earlier version or installation: the VM gives away
\* the mask of genuine HMACs only, and a V-App is run with HMACs of its own code and this key.
THEOREM PreloadSafety == SystemSpec => [](UnmaskedAreGenuine /\ HmacsAreCurrent)
BY PreloadInvariance, PreloadInvImplies, PTL

\* What the masks of handler_preload_vapp (preload_vapp.rs) unmask is the HMAC of a page of the
\* V-App that the root was computed of.
THEOREM MasksGenuine == SystemSpec => []UnmaskedAreGenuine
BY PreloadSafety, PTL

\* The HMACs that load (hmac_auth.rs) lets start_vapp use are of this V-App and this key.
THEOREM HmacFileCurrent == SystemSpec => []HmacsAreCurrent
BY PreloadSafety, PTL

\* The store is as safe while V-Apps are preloaded, registered by the client and run, and
\* across installations of the Vanadium app: both at once, which no run reaches.
THEOREM StoreSafetyMeanwhile == SystemSpec => [](ValidIsWhole /\ OneEntryPerName /\ OneAuthKey)
<1>1. PreloadInv => ValidIsWhole /\ OneEntryPerName /\ OneAuthKey
  BY StoreInvImplies DEF PreloadInv
<1> QED
  BY <1>1, PreloadInvariance, PTL
=============================================================================
