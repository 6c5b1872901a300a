---------------------------- MODULE VAppStorage -----------------------------
(***************************************************************************)
(* What the device's persistent storage promises: a registered V-App has   *)
(* slots of its own, which keep what it wrote last until its user          *)
(* uninstalls it or registers a V-App of the same name.                    *)
(***************************************************************************)
EXTENDS Naturals

CONSTANTS
  Vapps, NameOf, SlotsOf, MaxStorageSlots, Data, Zero, NoVapp,
  Absent,      \* The slots of a V-App that is not registered.
  Failed       \* The answer to a read that fails.

VARIABLES
  registry,     \* The slots of every V-App.
  running,
  reading,      \* The slot that is being read, and the part of it that was read.
  uninstalling,
  mayLose,      \* Whether V-Apps may disappear although nobody uninstalled them.
  answer        \* The answer to the last read.

storageVars == <<registry, running, reading, uninstalling, answer>>

Init ==
  /\ registry = [m \in Vapps |-> Absent]
  /\ running = NoVapp
  /\ reading = <<>>
  /\ ~uninstalling
  /\ answer = Failed

Empty(m) == [s \in 0 .. SlotsOf[m] - 1 |-> Zero]

Register(m) ==
  /\ running = NoVapp
  /\ registry' = [v \in Vapps |-> IF v = m THEN Empty(m)
                                  ELSE IF NameOf[v] = NameOf[m] THEN Absent ELSE registry[v]]
  /\ UNCHANGED <<running, reading, uninstalling, answer>>

Start(m) ==
  /\ running = NoVapp
  /\ registry[m] # Absent
  /\ running' = m
  /\ UNCHANGED <<registry, reading, uninstalling, answer>>

Stop ==
  /\ running' = NoVapp /\ reading' = <<>>
  /\ UNCHANGED <<registry, uninstalling, answer>>

Holds(s) == registry[running] # Absent /\ s < SlotsOf[running]

Content(s) == IF Holds(s) THEN registry[running][s] ELSE Zero

\* A slot is read at once or in two parts.
ReadPart(s) ==
  /\ running # NoVapp /\ reading = <<>>
  /\ reading' = <<s, Content(s)>>
  /\ UNCHANGED <<registry, running, uninstalling, answer>>

Read(s) ==
  /\ running # NoVapp
  /\ \/ reading = <<>> /\ answer' = <<Content(s)>>
     \/ reading # <<>> /\ reading[1] = s /\ answer' = <<reading[2], Content(s)>>
  /\ reading' = <<>>
  /\ UNCHANGED <<registry, running, uninstalling>>

RefuseRead(s) ==
  /\ running # NoVapp /\ reading = <<>>
  /\ ~Holds(s)
  /\ answer' = Failed
  /\ UNCHANGED <<registry, running, reading, uninstalling>>

Put(s, d) ==
  /\ running # NoVapp /\ reading = <<>>
  /\ Holds(s)
  /\ registry' = [registry EXCEPT ![running][s] = d]
  /\ UNCHANGED <<running, reading, uninstalling, answer>>

BeginUninstall == uninstalling' = TRUE /\ UNCHANGED <<registry, running, reading, answer>>

\* The V-App goes on, or is stopped.
Disturb ==
  \/ UNCHANGED <<running, reading>>
  \/ running' = NoVapp /\ reading' = <<>>

Uninstall(m) ==
  /\ uninstalling \/ mayLose'
  /\ registry' = [registry EXCEPT ![m] = Absent]
  /\ Disturb
  /\ UNCHANGED <<uninstalling, answer>>

EndUninstall ==
  /\ uninstalling' = FALSE
  /\ Disturb
  /\ UNCHANGED <<registry, answer>>

Next ==
  \/ \E m \in Vapps : Register(m) \/ Start(m) \/ Uninstall(m)
  \/ \E s \in 0 .. MaxStorageSlots : ReadPart(s) \/ Read(s) \/ RefuseRead(s) \/ (\E d \in Data : Put(s, d))
  \/ Stop \/ BeginUninstall \/ EndUninstall

Spec == Init /\ [][Next]_storageVars
=============================================================================
