----------------------------- MODULE VAppStore ------------------------------
(***************************************************************************)
(* The registered V-Apps, their persistent storage and the VM's            *)
(* authentication key, all in non-volatile memory: VAppStore               *)
(* (vm/src/vapp.rs), VMAuthKey (vm/src/auth.rs), handler_register_vapp,    *)
(* the storage ECALLs (vm/src/handlers/lib/ecall.rs) and the menu entry    *)
(* that uninstalls all V-Apps (vm/src/app_ui/menu.rs). Reading or writing  *)
(* a buffer of the V-App may interrupt the VM to fetch a page, and a       *)
(* waiting VM handles the events of the screen, where the home menu stays  *)
(* until the V-App draws something: a storage ECALL has two parts, and the *)
(* menu can come between them.                                             *)
(*                                                                         *)
(* LazyStorage (vm/src/nvm.rs): cells of non-volatile memory, each a value *)
(* and a flag that says whether the value is valid. An operation is the    *)
(* sequence of writes it makes; the power may fail before, during or after *)
(* any of them. How AlignedStorage::update writes is the device SDK's: a   *)
(* write that the power interrupts may leave anything in a value.          *)
(***************************************************************************)
EXTENDS Naturals, Sequences, FiniteSets, FiniteSetsExt

CONSTANTS
  Vapps,            \* V-Apps, by the hash of their manifests.
  NameOf, SlotsOf,  \* What each manifest says: vapp_name, n_storage_slots.
  Entries,          \* Indices of the store: 0 .. MAX_REGISTERED_VAPPS - 1.
  MaxStorageSlots,  \* MAX_STORAGE_SLOTS
  Data, Zero,       \* Contents of a slot: what V-Apps write, and 32 zero bytes.
  Keys,             \* Random keys.
  NoVapp, Garbage, AuthKey, Absent, Failed,
  MaxPowerLosses    \* Bound of the model.

ASSUME VAppStoreAssumption ==
  /\ NameOf \in [Vapps -> Vapps]
  /\ SlotsOf \in [Vapps -> 0 .. MaxStorageSlots]
  /\ MaxStorageSlots \in Nat
  /\ IsFiniteSet(Entries) /\ Entries \subseteq Nat
  /\ NoVapp \notin Vapps /\ Garbage \notin Vapps \cup Data \cup Keys \cup {NoVapp, Zero}
  /\ AuthKey \notin Entries /\ Zero \notin Data
  /\ \A m \in Vapps : Absent \notin [0 .. SlotsOf[m] - 1 -> Data \cup {Zero}]
  /\ MaxPowerLosses \in Nat

VARIABLES
  nvm,          \* The flag and the value of each cell.
  writes,       \* What the operation under way has yet to write.
  vm,           \* What the VM is doing, and for which V-App, slot, value and entry.
  answer,       \* What the last storage_read gave its V-App: the parts that it copied.
  job,          \* History: the operation under way, and the registry before it.
  usedKeys,     \* History: the keys that authenticated something.
  powerLosses

vars == <<nvm, writes, vm, answer, job, usedKeys, powerLosses>>

-----------------------------------------------------------------------------
(* LazyStorage.                                                                *)
Write(cell, field, to) == [cell |-> cell, field |-> field, to |-> to]

IsInitialized(cell) == nvm[cell].flag

Initialize(cell, value) ==
  <<Write(cell, "value", value), Write(cell, "flag", TRUE)>>

Update(cell, value) ==
  <<Write(cell, "flag", FALSE), Write(cell, "value", value), Write(cell, "flag", TRUE)>>

Clear(cell, zeroed) == <<Write(cell, "flag", FALSE), Write(cell, "value", zeroed)>>

\* nvm after the next write.
Written ==
  LET w == Head(writes) IN
  IF w.field = "flag" THEN [nvm EXCEPT ![w.cell].flag = w.to]
                      ELSE [nvm EXCEPT ![w.cell].value = w.to]

\* nvm after a power failure, where the next write may have begun: the flag is one
\* byte, and is written or not.
AfterPowerLoss(garbage) ==
  {nvm} \cup
  IF writes # <<>> /\ Head(writes).field = "value"
  THEN {[nvm EXCEPT ![Head(writes).cell].value = garbage[Head(writes).cell]]} ELSE {}

-----------------------------------------------------------------------------
(* The store.                                                                  *)
Slots == 0 .. MaxStorageSlots - 1

VAppEntry(m) == [vapp |-> m, slots |-> [s \in Slots |-> Zero]]

\* What a power failure may leave in a value that it interrupts the writing of.
TornValue ==
  [c \in Entries \cup {AuthKey} |->
     IF c = AuthKey THEN Garbage ELSE [vapp |-> Garbage, slots |-> [s \in Slots |-> Garbage]]]

Off == [at |-> "off", vapp |-> NoVapp]
Home == [at |-> "home", vapp |-> NoVapp]
Running(m) == [at |-> "running", vapp |-> m]

-----------------------------------------------------------------------------
Initialized == {i \in Entries : IsInitialized(i)}

\* find_by_hash and find_by_name look for the first match: there is only one
\* (OneEntryPerName), so the order of the search does not matter.
FindByHash(m) == {i \in Initialized : nvm[i].value.vapp = m}

NameIn(i) == IF nvm[i].value.vapp \in Vapps THEN NameOf[nvm[i].value.vapp] ELSE Garbage

FindByName(m) == {i \in Initialized : NameIn(i) = NameOf[m]}

IsRegistered(m) == FindByHash(m) # {}

\* History: what the store holds, by V-App.
Registry ==
  [m \in Vapps |->
     IF IsRegistered(m)
     THEN LET i == Min(FindByHash(m))
          IN [s \in 0 .. SlotsOf[m] - 1 |-> nvm[i].value.slots[s]]
     ELSE Absent]

NoJob == [kind |-> "none", before |-> [m \in Vapps |-> Absent]]

Begin(kind, todo) ==
  /\ writes' = todo
  /\ job' = IF todo = <<>> THEN NoJob ELSE [kind |-> kind, before |-> Registry]

-----------------------------------------------------------------------------
Init ==
  /\ nvm = [c \in Entries \cup {AuthKey} |->
              [flag |-> FALSE, value |-> IF c = AuthKey THEN Zero ELSE VAppEntry(NoVapp)]]
  /\ writes = <<>>
  /\ vm = Off
  /\ answer = Failed
  /\ job = NoJob
  /\ usedKeys = {}
  /\ powerLosses = 0

Idle == writes = <<>>

\* sample_main: ensure_initialized generates the authentication key at first.
BootWithFreshKey(k) ==
  /\ Idle /\ vm = Off
  /\ vm' = Home
  /\ Begin("boot", Initialize(AuthKey, k))
  /\ UNCHANGED <<nvm, answer, usedKeys, powerLosses>>

Boot(k) ==
  /\ Idle /\ vm = Off
  /\ vm' = Home
  /\ Begin("boot", IF IsInitialized(AuthKey) THEN <<>> ELSE Initialize(AuthKey, k))
  /\ UNCHANGED <<nvm, answer, usedKeys, powerLosses>>

\* VAppStore::register, which handler_register_vapp calls once the user has approved.
RegisterWithoutLookup(m) ==
  /\ Initialized # Entries
  /\ Begin("register", Initialize(Min(Entries \ Initialized), VAppEntry(m)))

RegisterKeepingSlots(m) ==
  /\ \/ /\ FindByName(m) # {}
        /\ LET i == Min(FindByName(m))
           IN Begin("register", Update(i, [nvm[i].value EXCEPT !.vapp = m]))
     \/ /\ FindByName(m) = {}
        /\ Initialized # Entries
        /\ Begin("register", Initialize(Min(Entries \ Initialized), VAppEntry(m)))

Register(m) ==
  /\ \/ /\ FindByName(m) # {}
        /\ Begin("register", Update(Min(FindByName(m)), VAppEntry(m)))
     \/ /\ FindByName(m) = {}
        /\ Initialized # Entries     \* Otherwise StoreFull.
        /\ Begin("register", Initialize(Min(Entries \ Initialized), VAppEntry(m)))

RegisterVApp(m) ==
  /\ Idle /\ vm = Home
  /\ Register(m)
  /\ UNCHANGED <<nvm, vm, answer, usedKeys, powerLosses>>

\* handler_start_vapp: the outsourced memory takes its key from the auth key.
StartVApp(m) ==
  /\ Idle /\ vm = Home
  /\ IsRegistered(m)
  /\ vm' = Running(m)
  /\ usedKeys' = usedKeys \cup {nvm[AuthKey].value}
  /\ UNCHANGED <<nvm, writes, answer, job, powerLosses>>

\* The V-App exits, panics or is aborted, maybe in the middle of a storage ECALL, where
\* a page that the VM asks for may not come.
StopVApp ==
  /\ Idle /\ vm.at \in {"running", "read", "write"}
  /\ vm' = Home
  /\ UNCHANGED <<nvm, writes, answer, job, usedKeys, powerLosses>>

-----------------------------------------------------------------------------
Usable(s) == s < SlotsOf[vm.vapp] /\ IsRegistered(vm.vapp)

\* handle_storage_read finds the entry, and takes a reference to its slot in non-volatile
\* memory.
StorageRead(s) ==
  /\ Idle /\ vm.at = "running"
  /\ Usable(s)
  /\ vm' = [at |-> "read", vapp |-> vm.vapp, slot |-> s, entry |-> Min(FindByHash(vm.vapp)),
            parts |-> <<>>]
  /\ UNCHANGED <<nvm, writes, answer, job, usedKeys, powerLosses>>

RefuseRead(s) ==
  /\ Idle /\ vm.at = "running"
  /\ ~Usable(s)
  /\ answer' = Failed
  /\ UNCHANGED <<nvm, writes, vm, job, usedKeys, powerLosses>>

SlotNow == nvm[vm.entry].value.slots[vm.slot]

\* write_buffer asks for the page of the V-App's buffer and copies from the reference. A
\* buffer that does not end in the first page gets its second part from the next one,
\* and the menu may come between.
ReadPart ==
  /\ Idle /\ vm.at = "read"
  /\ vm.parts = <<>>
  /\ vm' = [vm EXCEPT !.parts = <<SlotNow>>]
  /\ UNCHANGED <<nvm, writes, answer, job, usedKeys, powerLosses>>

ReadSlot ==
  /\ Idle /\ vm.at = "read"
  /\ answer' = Append(vm.parts, SlotNow)
  /\ vm' = Running(vm.vapp)
  /\ UNCHANGED <<nvm, writes, job, usedKeys, powerLosses>>

\* handle_storage_write finds the entry and reads the V-App's buffer; then it writes
\* the entry back with the new slot, if there still is one.
StorageWrite(s, d) ==
  /\ Idle /\ vm.at = "running"
  /\ Usable(s)
  /\ vm' = [at |-> "write", vapp |-> vm.vapp, slot |-> s, data |-> d,
            entry |-> Min(FindByHash(vm.vapp))]
  /\ UNCHANGED <<nvm, writes, answer, job, usedKeys, powerLosses>>

WriteSlotOfAnyEntry ==
  /\ Idle /\ vm.at = "write"
  /\ Begin("write", Update(vm.entry, [nvm[vm.entry].value EXCEPT !.slots[vm.slot] = vm.data]))
  /\ vm' = Running(vm.vapp)
  /\ UNCHANGED <<nvm, answer, usedKeys, powerLosses>>

WriteSlot ==
  /\ Idle /\ vm.at = "write"
  /\ \/ /\ IsInitialized(vm.entry)
        /\ Begin("write", Update(vm.entry, [nvm[vm.entry].value EXCEPT !.slots[vm.slot] = vm.data]))
        /\ vm' = Running(vm.vapp)
     \/ /\ ~IsInitialized(vm.entry)    \* "VApp entry not found": the VM aborts.
        /\ vm' = Home
        /\ UNCHANGED <<writes, job>>
  /\ UNCHANGED <<nvm, answer, usedKeys, powerLosses>>

-----------------------------------------------------------------------------
\* uninstall_all, from the menu of the home screen: entry after entry, in their order.
Ascending(S) ==
  {order \in [1 .. Cardinality(S) -> S] : \A j, k \in DOMAIN order : j < k => order[j] < order[k]}

ClearAll(order) ==
  [n \in 1 .. 2 * Len(order) |->
     Clear(order[(n + 1) \div 2], VAppEntry(NoVapp))[IF n % 2 = 1 THEN 1 ELSE 2]]

UninstallAll ==
  /\ Idle /\ vm.at # "off"
  /\ \E order \in Ascending(Initialized) : Begin("uninstall", ClearAll(order))
  /\ UNCHANGED <<nvm, vm, answer, usedKeys, powerLosses>>

NvmWrite ==
  /\ ~Idle
  /\ nvm' = Written
  /\ writes' = Tail(writes)
  /\ job' = IF Tail(writes) = <<>> THEN NoJob ELSE job
  /\ UNCHANGED <<vm, answer, usedKeys, powerLosses>>

\* The device loses power, or the Vanadium app is closed.
PowerLoss ==
  /\ vm # Off
  /\ powerLosses < MaxPowerLosses
  /\ nvm' \in AfterPowerLoss(TornValue)
  /\ writes' = <<>>
  /\ job' = NoJob
  /\ vm' = Off
  /\ powerLosses' = powerLosses + 1
  /\ UNCHANGED <<answer, usedKeys>>

\* Everything that happens while the device has power.
Operate ==
  \/ \E k \in Keys : Boot(k)
  \/ \E m \in Vapps : RegisterVApp(m) \/ StartVApp(m)
  \/ StopVApp
  \/ \E s \in 0 .. MaxStorageSlots :
       StorageRead(s) \/ RefuseRead(s) \/ (\E d \in Data : StorageWrite(s, d))
  \/ ReadPart \/ ReadSlot \/ WriteSlot
  \/ UninstallAll \/ NvmWrite

Next == Operate \/ PowerLoss

Spec == Init /\ [][Next]_vars

-----------------------------------------------------------------------------
\* Wherever the power fails, a cell whose flag is valid holds a value that was written
\* whole: no V-App is looked up, and nothing is authenticated, with half a value.
ValidIsWhole ==
  /\ \A i \in Initialized : nvm[i].value.vapp \in Vapps /\ Garbage \notin Range(nvm[i].value.slots)
  /\ IsInitialized(AuthKey) => nvm[AuthKey].value \in Keys

\* Registrations of V-Apps of one name, interrupted and repeated in any order, never
\* leave two entries of the same name: find_by_name and find_by_hash find the one.
OneEntryPerName ==
  \A i, j \in Initialized : NameIn(i) = NameIn(j) => i = j

\* Everything is authenticated with one key ("a permanent bind to the identity of the
\* instance of the app", auth.rs:2), although generating it may be interrupted.
OneAuthKey == Cardinality(usedKeys) <= 1

\* A registration or a write takes effect when its last write does.
RegistryNow == IF job.kind \in {"register", "write"} THEN job.before ELSE Registry

\* The part of a slot that the V-App has got already.
Reading == IF vm.at = "read" /\ vm.parts # <<>> THEN <<vm.slot, vm.parts[1]>> ELSE <<>>

Lossy ==
  INSTANCE VAppStorage WITH registry <- RegistryNow, running <- vm.vapp, reading <- Reading,
                            uninstalling <- job.kind = "uninstall", mayLose <- powerLosses > 0

\* Isolation and persistence: a V-App reads what it wrote last, or nothing; nobody
\* else's data, no value of an earlier registration or of an interrupted write. Until
\* the power fails, it is there until somebody uninstalls or replaces it; a power
\* failure may lose it. Only a read that somebody uninstalls the V-App in the middle of
\* is torn: its first part is what the V-App wrote last, and the second is zero.
IsolatedStorage == Lossy!Spec

\* "Speculatively try register; if already registered, this is harmless"
\* (vanadium_client.rs:1348): registering a V-App that is registered leaves it as it is.
ReregistrationIsHarmless ==
  [][job.kind = "register" /\ job' = NoJob =>
       \A m \in Vapps :
         job.before[m] # Absent /\ Registry'[m] # Absent => Registry'[m] = job.before[m]]_vars
=============================================================================
