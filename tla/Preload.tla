------------------------------- MODULE Preload ------------------------------
(***************************************************************************)
(* Preloading a V-App: the VM (handler_preload_vapp,                       *)
(* vm/src/handlers/preload_vapp.rs) exchanges the hashes of the code pages *)
(* for masked HMACs, and gives the mask away once the root of the hashes   *)
(* is the manifest's; the client (start_vapp and preload_vapp of           *)
(* client-sdk/src/vanadium_client.rs) keeps the HMACs in a file next to    *)
(* the binary (client-sdk/src/hmac_auth.rs). Binaries of one name replace  *)
(* each other in the same place, and share the file.                       *)
(* Hashes are ideal: a leaf is its page, a root the sequence of its        *)
(* leaves, an HMAC the tuple of its inputs, and a mask hides it.           *)
(***************************************************************************)
EXTENDS VAppStore, Sequences

CONSTANTS
  Preloaded,     \* V-Apps that are preloaded: versions of one V-App.
  CodePages,     \* n_code_pages_rounded
  MaxHashes,     \* GetCodePageHashesResponse::max_hashes
  Wrong,         \* A hash of no page.
  NoFile,
  MaxPreloads    \* Bound of the model.

ASSUME PreloadAssumption ==
  /\ Preloaded \subseteq Vapps
  /\ \A m, n \in Preloaded : NameOf[m] = NameOf[n]
  /\ CodePages \in Nat \ {0} /\ MaxHashes \in Nat \ {0} /\ MaxPreloads \in Nat

VARIABLES
  client,    \* What the client's program is doing, for which V-App, with which HMACs.
  file,      \* The .hmac file.
  masked,    \* History: the masked HMACs that the VM sent, with their session.
  released   \* History: the sessions whose ephemeral_sk the VM gave away.

preloadVars == <<client, file, masked, released>>

PageHash(m, k) == <<m, k>>
CodeRoot(m) == [k \in 1 .. CodePages |-> PageHash(m, k)]
Hmac(key, m, k, hash) == [key |-> key, vapp |-> m, index |-> k, hash |-> hash]

NoClient == [at |-> "idle", vapp |-> NoVapp, hmacs |-> <<>>]
Client(at, m, hmacs) == [at |-> at, vapp |-> m, hmacs |-> hmacs]

PreloadInit ==
  /\ client = NoClient
  /\ file = NoFile
  /\ masked = {}
  /\ released = {}

Sessions == {e.session : e \in masked} \cup released

-----------------------------------------------------------------------------
(* The VM.                                                                     *)

\* The handler starts with a fresh ephemeral_sk; it does not look at the registry.
BeginPreload ==
  /\ Idle /\ vm = Home /\ client.at = "preload"
  /\ \E s \in 1 .. MaxPreloads :
       /\ s \notin Sessions
       /\ vm' = [at |-> "preload", vapp |-> NoVapp, of |-> client.vapp, fed |-> <<>>, session |-> s]
  /\ UNCHANGED <<nvm, writes, answer, job, usedKeys, powerLosses, preloadVars>>

\* One batch of hashes; the answer has their HMACs, each masked for its index.
FeedHashes(m, batch) ==
  /\ Idle /\ vm.at = "preload" /\ vm.of = m
  /\ batch # <<>>
  /\ Len(vm.fed) + Len(batch) <= CodePages
  /\ vm' = [vm EXCEPT !.fed = @ \o batch]
  /\ masked' = masked \cup
       {[session |-> vm.session,
         hmac |-> Hmac(nvm[AuthKey].value, m, Len(vm.fed) + k, batch[k])] : k \in DOMAIN batch}
  /\ UNCHANGED <<nvm, writes, answer, job, usedKeys, powerLosses, client, file, released>>

\* Too many hashes, too few at the end, or the root of another code: IncorrectData.
RefuseHashes(m, batch) ==
  /\ Idle /\ vm.at = "preload" /\ vm.of = m
  /\ \/ batch # <<>> /\ Len(vm.fed) + Len(batch) > CodePages
     \/ batch = <<>> /\ (Len(vm.fed) # CodePages \/ vm.fed # CodeRoot(m))
  /\ vm' = Home
  /\ client' = NoClient
  /\ UNCHANGED <<nvm, writes, answer, job, usedKeys, powerLosses, file, masked, released>>

ReleaseUncompared ==
  /\ Idle /\ vm.at = "preload"
  /\ Len(vm.fed) = CodePages
  /\ released' = released \cup {vm.session}
  /\ vm' = Home
  /\ client' = [client EXCEPT !.at = "save",
                              !.hmacs = [k \in 1 .. CodePages |->
                                           Hmac(nvm[AuthKey].value, vm.of, k, vm.fed[k])]]
  /\ UNCHANGED <<nvm, writes, answer, job, usedKeys, powerLosses, file, masked>>

\* An empty batch ends the exchange: only now does the VM return ephemeral_sk, and the
\* client removes the masks.
ReleaseMask ==
  /\ Idle /\ vm.at = "preload"
  /\ Len(vm.fed) = CodePages /\ vm.fed = CodeRoot(vm.of)
  /\ released' = released \cup {vm.session}
  /\ vm' = Home
  /\ client' = [client EXCEPT !.at = "save",
                              !.hmacs = [k \in 1 .. CodePages |->
                                           Hmac(nvm[AuthKey].value, vm.of, k, vm.fed[k])]]
  /\ UNCHANGED <<nvm, writes, answer, job, usedKeys, powerLosses, file, masked>>

-----------------------------------------------------------------------------
(* The client.                                                                 *)

\* CodeHmacs::load: a whole header, this V-App's hash, this device's id, whole HMACs.
LoadsWithoutId(m) == file # NoFile /\ file.header /\ file.vapp = m /\ ~file.torn

Loads(m) ==
  /\ file # NoFile /\ file.header
  /\ file.vapp = m
  /\ file.id = nvm[AuthKey].value
  /\ ~file.torn

\* start_vapp with use_hmacs, or preload_vapp, which does not look for a file.
UseHmacs(m) ==
  /\ Idle /\ vm = Home /\ client = NoClient
  /\ \/ Loads(m) /\ client' = Client("run", m, file.hmacs)
     \/ client' = Client("register", m, <<>>)
  /\ UNCHANGED <<vars, file, masked, released>>

\* The speculative registration; the user may deny it, and the client goes on.
RegisterFirst ==
  /\ Idle /\ vm = Home /\ client.at = "register"
  /\ client' = [client EXCEPT !.at = "preload"]
  /\ \/ Register(client.vapp)
     \/ UNCHANGED <<writes, job>>
  /\ UNCHANGED <<nvm, vm, answer, usedKeys, powerLosses, file, masked, released>>

\* CodeHmacs::save: File::create truncates, then the header and the HMACs are written.
CreateFile ==
  /\ client.at = "save"
  /\ file' = [header |-> FALSE, vapp |-> client.vapp, id |-> nvm[AuthKey].value,
              hmacs |-> <<>>, torn |-> FALSE]
  /\ client' = [client EXCEPT !.at = "write"]
  /\ UNCHANGED <<vars, masked, released>>

WriteFile ==
  /\ client.at = "write"
  /\ \/ /\ ~file.header
        /\ file' = [file EXCEPT !.header = TRUE]
     \/ /\ file.header /\ Len(file.hmacs) < CodePages
        /\ file' = IF file.torn
                   THEN [file EXCEPT !.torn = FALSE,
                                     !.hmacs = Append(@, client.hmacs[Len(file.hmacs) + 1])]
                   ELSE [file EXCEPT !.torn = TRUE]
  /\ UNCHANGED <<vars, client, masked, released>>

\* The file is complete, or there was an error, which is ignored (best effort): the V-App
\* is run with all HMACs.
RunWithHmacs ==
  /\ client.at \in {"save", "write"}
  /\ client' = [client EXCEPT !.at = "run"]
  /\ UNCHANGED <<vars, file, masked, released>>

\* run_vapp, once the V-App is registered.
RunVApp ==
  /\ client.at = "run"
  /\ StartVApp(client.vapp)
  /\ client' = NoClient
  /\ UNCHANGED <<file, masked, released>>

\* AppNotRegistered: the client registers the V-App and runs it again.
RegisterThenRun ==
  /\ Idle /\ vm = Home /\ client.at = "run"
  /\ ~IsRegistered(client.vapp)
  /\ Register(client.vapp)
  /\ UNCHANGED <<nvm, vm, answer, usedKeys, powerLosses, preloadVars>>

\* The client's program ends, as it does when it only preloads, and leaves the file as it is.
ClientCrash ==
  /\ client # NoClient /\ vm.at # "preload"
  /\ client' = NoClient
  /\ UNCHANGED <<vars, file, masked, released>>

\* The Vanadium app is installed again, with empty memory.
Reinstall ==
  /\ Idle /\ vm = Off
  /\ powerLosses < MaxPowerLosses
  /\ powerLosses' = powerLosses + 1
  /\ nvm' = [c \in DOMAIN nvm |-> [flag |-> FALSE, value |-> IF c = AuthKey THEN Zero
                                                             ELSE VAppEntry(NoVapp)]]
  /\ usedKeys' = {}
  /\ UNCHANGED <<writes, vm, answer, job, preloadVars>>

\* Without power the exchange ends, and the client's call fails.
PowerLossMeanwhile ==
  /\ PowerLoss
  /\ client' = NoClient
  /\ UNCHANGED <<file, masked, released>>

\* The client may send any hashes, in batches of any size.
Batches(m) ==
  UNION {[1 .. n -> {PageHash(m, k) : k \in 1 .. CodePages} \cup {Wrong}] : n \in 0 .. MaxHashes}

PreloadNext ==
  \/ BeginPreload \/ ReleaseMask \/ RegisterFirst \/ CreateFile \/ WriteFile
  \/ RunWithHmacs \/ RunVApp \/ ClientCrash \/ Reinstall \/ PowerLossMeanwhile
  \/ RegisterThenRun
  \/ \E m \in Preloaded :
       UseHmacs(m) \/ \E batch \in Batches(m) : FeedHashes(m, batch) \/ RefuseHashes(m, batch)

\* The store, with preloading.
SystemNext == PreloadNext \/ (Operate /\ UNCHANGED preloadVars)

SystemSpec == Init /\ PreloadInit /\ [][SystemNext]_<<vars, preloadVars>>

-----------------------------------------------------------------------------
\* The mask of an HMAC is given away only after the whole code was hashed and had the
\* manifest's root, whatever batches were sent in whichever exchanges before: an HMAC that
\* can be unmasked is of a page of the V-App it is for, at its index.
UnmaskedAreGenuine ==
  \A e \in masked : e.session \in released => e.hmac.hash = PageHash(e.hmac.vapp, e.hmac.index)

\* The HMACs that a V-App is run with are those of its own code, page by page, under the key
\* that the device has now, although the file may be of another version of the V-App, of an
\* earlier installation, or cut short by a crash; then there are fewer of them.
HmacsAreCurrent ==
  client.at = "run" =>
    \A k \in DOMAIN client.hmacs :
      client.hmacs[k] = Hmac(nvm[AuthKey].value, client.vapp, k, PageHash(client.vapp, k))
=============================================================================
