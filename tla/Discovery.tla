----------------------------- MODULE Discovery -----------------------------
(***************************************************************************)
(* The ONVIF discovery service and its mDNS server: lookups that run at    *)
(* the same time, in the background worker and in calls of                 *)
(* DiscoverResources, the hostnames they map to addresses, the cache file  *)
(* that carries the mappings over a restart, Close, the service that is    *)
(* built next in the same process, and crashes.                            *)
(*                                                                         *)
(* Every service has an mDNS server of its own.  Nothing cuts off the      *)
(* lookups of a service that is closed: they go on with its server.        *)
(*                                                                         *)
(* A device has one hostname (the code registers one for its MAC address   *)
(* and one for its serial number in the same way).  Its address is what    *)
(* ONVIF answers, and its stream URLs may or may not contain it.           *)
(***************************************************************************)
EXTENDS Naturals

CONSTANTS
  Hosts,       \* hostnames of the devices
  Addresses,   \* IP addresses
  Lookups,     \* goroutines that run a lookup
  Worker,      \* the discoveryBackgroundWorker, one of them
  None,        \* no mapping, nothing found
  MaxServers   \* bound on the services that are built in one process

ASSUME DiscoveryAssumption ==
  /\ Worker \in Lookups
  /\ None \notin Addresses
  /\ MaxServers \in Nat \ {0}

Servers == 1 .. MaxServers

VARIABLES
  address,    \* address[h]: the device's address
  reach,      \* reach[h]: "no", or whether its URLs contain the address:
              \* "ip" or "name"
  multicast,  \* zeroconf.RegisterProxy succeeds
  service,    \* "running", "shut", "stopping", "closed" or "crashed"
  server,     \* the mdnsServer of the service built last
  mapped,     \* mapped[s]: mappedDevices
  served,     \* registrations that zeroconf answers for: <<server,
              \* hostname, address>>
  late,       \* history: <<server, hostname>> added after its Shutdown
  pc,         \* pc[l]: "idle", "asking", "adding", "create" or "write"
  at,         \* at[l]: the mdnsServer of the lookup's service
  found,      \* found[l]: cameras the lookup still has to register
  snap,       \* snap[l]: the entries that UpdateCacheFile will write
  file        \* the cache file: "empty", "torn" or "ok", and its entries

network == <<address, reach, multicast>>
registrations == <<mapped, served, late>>
vars == <<network, service, server, registrations, pc, at, found, snap, file>>

NoMapping == [h \in Hosts |-> None]
Mappings == [Hosts -> Addresses \union {None}]
NoFile == [state |-> "empty", entries |-> NoMapping]
TornFile == [state |-> "torn", entries |-> NoMapping]
FileOf(m) == [state |-> "ok", entries |-> m]

Init ==
  /\ address \in [Hosts -> Addresses]
  /\ reach = [h \in Hosts |-> "no"]
  /\ multicast = TRUE
  /\ service = "running" /\ server = 1
  /\ mapped = [s \in Servers |-> NoMapping]
  /\ served = {} /\ late = {}
  /\ pc = [l \in Lookups |-> "idle"]
  /\ at = [l \in Lookups |-> 1]
  /\ found = [l \in Lookups |-> NoMapping]
  /\ snap = [l \in Lookups |-> NoMapping]
  /\ file = NoFile

(* mdnsServer.Shutdown has been called. *)
Down(s) == s # server \/ service # "running"

(* Devices come, go and get other addresses. *)
NetworkChanges ==
  /\ \/ \E h \in Hosts, a \in Addresses : address' = [address EXCEPT ![h] = a]
        /\ UNCHANGED <<reach, multicast>>
     \/ \E h \in Hosts, r \in {"no", "ip", "name"} :
          reach' = [reach EXCEPT ![h] = r]
        /\ UNCHANGED <<address, multicast>>
     \/ multicast' = ~multicast /\ UNCHANGED <<address, reach>>
  /\ UNCHANGED <<service, server, registrations, pc, at, found, snap, file>>

----------------------------------------------------------------------------
(* runDiscoveryLookup begins: calls come while the service is there, the
   worker's ticker goes on until its context is cancelled. *)
Ask(l) ==
  /\ pc[l] = "idle"
  /\ service = "running" \/ (service = "shut" /\ l = Worker)
  /\ pc' = [pc EXCEPT ![l] = "asking"]
  /\ at' = [at EXCEPT ![l] = server]
  /\ UNCHANGED <<network, service, server, registrations, found, snap, file>>

(* DiscoverCameras has the answers of the devices, *)
Discover(l) ==
  /\ pc[l] = "asking"
  /\ \E h \in Hosts : reach[h] # "no"
  /\ found' = [found EXCEPT ![l] =
                [h \in Hosts |-> IF reach[h] = "no" THEN None
                                 ELSE [ip |-> address[h], next |-> reach[h]]]]
  /\ pc' = [pc EXCEPT ![l] = "adding"]
  /\ UNCHANGED <<network, service, server, registrations, at, snap, file>>

(* or none: no device answered, or not before the context was done. *)
FindNothing(l) ==
  /\ pc[l] = "asking"
  /\ \/ \A h \in Hosts : reach[h] = "no"
     \/ l # Worker
     \/ service = "stopping"
  /\ pc' = [pc EXCEPT ![l] = "idle"]
  /\ UNCHANGED <<network, service, server, registrations, at, found, snap,
                 file>>

(* The registrations when those of s for h are cleaned up. *)
Cleaned(s, h) == {r \in served : r[1] # s \/ r[2] # h}

(* Mutant: the registration of the old address is not cleaned up. *)
AddKeepsRegistration(s, h, a) ==
  IF mapped[s][h] = a \/ ~multicast THEN UNCHANGED <<mapped, served>>
  ELSE /\ mapped' = [mapped EXCEPT ![s][h] = a]
       /\ served' = served \union {<<s, h, a>>}

(* mdnsServer.Add: nothing changes for the same address; an old registration
   is cleaned up before the new one is tried.  It does not ask whether the
   server was shut down. *)
Add(s, h, a) ==
  IF mapped[s][h] = a THEN UNCHANGED <<mapped, served>>
  ELSE IF multicast
    THEN /\ mapped' = [mapped EXCEPT ![s][h] = a]
         /\ served' = Cleaned(s, h) \union {<<s, h, a>>}
    ELSE /\ mapped' = [mapped EXCEPT ![s][h] = None]
         /\ served' = Cleaned(s, h)

(* tryMDNS maps the hostname of a camera, *)
Register(l, h) ==
  /\ pc[l] = "adding"
  /\ found[l][h] # None
  /\ found[l][h].next # "remove"
  /\ Add(at[l], h, found[l][h].ip)
  /\ late' = IF Down(at[l]) THEN late \union {<<at[l], h>>} ELSE late
  /\ found' = [found EXCEPT ![l][h] =
                IF @.next = "name" /\ mapped'[at[l]][h] # None
                  THEN [@ EXCEPT !.next = "remove"] ELSE None]
  /\ UNCHANGED <<network, service, server, pc, at, snap, file>>

(* and, when that succeeded, removes it again if no URL of the camera contains
   the address. *)
Remove(l, h) ==
  /\ pc[l] = "adding"
  /\ found[l][h] # None
  /\ found[l][h].next = "remove"
  /\ mapped' = [mapped EXCEPT ![at[l]][h] = None]
  /\ served' = Cleaned(at[l], h)
  /\ found' = [found EXCEPT ![l][h] = None]
  /\ UNCHANGED <<network, service, server, late, pc, at, snap, file>>

(* Mutant: the cache is written when there is none yet. *)
CollectOnce(l) ==
  /\ pc[l] = "adding"
  /\ found[l] = NoMapping
  /\ snap' = [snap EXCEPT ![l] =
                IF file.state = "ok" THEN NoMapping ELSE mapped[at[l]]]
  /\ pc' = [pc EXCEPT ![l] = IF file.state = "ok" THEN "idle" ELSE "create"]
  /\ UNCHANGED <<network, service, server, registrations, at, found, file>>

(* UpdateCacheFile collects the mappings under the lock, *)
Collect(l) ==
  /\ pc[l] = "adding"
  /\ found[l] = NoMapping
  /\ snap' = [snap EXCEPT ![l] = mapped[at[l]]]
  /\ pc' = [pc EXCEPT ![l] = "create"]
  /\ UNCHANGED <<network, service, server, registrations, at, found, file>>

(* truncates the file, which all servers share, *)
Create(l) ==
  /\ pc[l] = "create"
  /\ file' = NoFile
  /\ pc' = [pc EXCEPT ![l] = "write"]
  /\ UNCHANGED <<network, service, server, registrations, at, found, snap>>

(* and writes it.  What another lookup has written since may show behind the
   new entries, if it is longer, and then the file cannot be parsed. *)
Write(l) ==
  /\ pc[l] = "write"
  /\ \/ file' = FileOf(snap[l])
     \/ file \notin {NoFile, FileOf(snap[l])} /\ file' = TornFile
  /\ pc' = [pc EXCEPT ![l] = "idle"]
  /\ snap' = [snap EXCEPT ![l] = NoMapping]
  /\ UNCHANGED <<network, service, server, registrations, at, found>>

----------------------------------------------------------------------------
(* Mutant: Close leaves the mDNS server as it is. *)
ShutdownForgotten ==
  /\ service = "running"
  /\ service' = "shut"
  /\ UNCHANGED <<network, server, registrations, pc, at, found, snap, file>>

(* Close shuts the mDNS server down, *)
Shutdown ==
  /\ service = "running"
  /\ service' = "shut"
  /\ mapped' = [mapped EXCEPT ![server] = NoMapping]
  /\ served' = {r \in served : r[1] # server}
  /\ UNCHANGED <<network, server, late, pc, at, found, snap, file>>

(* cancels the worker's context, *)
Stop ==
  /\ service = "shut"
  /\ service' = "stopping"
  /\ UNCHANGED <<network, server, registrations, pc, at, found, snap, file>>

(* and waits for the worker, not for calls that are being served. *)
Closed ==
  /\ service = "stopping"
  /\ pc[Worker] = "idle"
  /\ service' = "closed"
  /\ UNCHANGED <<network, server, registrations, pc, at, found, snap, file>>

(* The process ends: zeroconf answers for nothing any more. *)
Crash ==
  /\ service # "crashed"
  /\ service' = "crashed" /\ server' = 1
  /\ mapped' = [s \in Servers |-> NoMapping]
  /\ served' = {} /\ late' = {}
  /\ pc' = [l \in Lookups |-> "idle"]
  /\ at' = [l \in Lookups |-> 1]
  /\ found' = [l \in Lookups |-> NoMapping]
  /\ snap' = [l \in Lookups |-> NoMapping]
  /\ UNCHANGED <<network, file>>

(* Mutant: what the file has no address for is served too. *)
BuildServingAll(s) ==
  LET cached == IF multicast THEN file.entries ELSE NoMapping
  IN /\ service' = "running" /\ server' = s
     /\ mapped' = [mapped EXCEPT ![s] = cached]
     /\ served' = served \union {<<s, h, cached[h]>> : h \in Hosts}
     /\ UNCHANGED <<network, late, pc, at, found, snap, file>>

(* A new service starts with the cached mappings.  What zeroconf answers for
   already is left alone. *)
Build(s) ==
  LET cached == IF multicast THEN file.entries ELSE NoMapping
  IN /\ service' = "running" /\ server' = s
     /\ mapped' = [mapped EXCEPT ![s] = cached]
     /\ served' = served \union
           {<<s, h, cached[h]>> : h \in {g \in Hosts : cached[g] # None}}
     /\ UNCHANGED <<network, late, pc, at, found, snap, file>>

(* In the next process. *)
Restart == service = "crashed" /\ Build(1)

(* In the same process, after a change of the configuration: the service is
   always rebuilt, and calls of the one before may still be under way. *)
Rebuild == service = "closed" /\ server < MaxServers /\ Build(server + 1)

----------------------------------------------------------------------------
Lookup(l) ==
  \/ Discover(l) \/ FindNothing(l)
  \/ \E h \in Hosts : Register(l, h) \/ Remove(l, h)
  \/ Collect(l) \/ Create(l) \/ Write(l)

Next ==
  \/ NetworkChanges
  \/ \E l \in Lookups : Ask(l) \/ Lookup(l)
  \/ Shutdown \/ Stop \/ Closed \/ Rebuild \/ Crash \/ Restart

(* The worker's ticker goes on; a call runs to its end, but none has to come. *)
Fairness ==
  /\ WF_vars(Ask(Worker))
  /\ \A l \in Lookups : WF_vars(Lookup(l))

Spec == Init /\ [][Next]_vars /\ Fairness

----------------------------------------------------------------------------
TypeOK ==
  /\ address \in [Hosts -> Addresses]
  /\ reach \in [Hosts -> {"no", "ip", "name"}]
  /\ multicast \in BOOLEAN
  /\ service \in {"running", "shut", "stopping", "closed", "crashed"}
  /\ server \in Servers
  /\ mapped \in [Servers -> Mappings]
  /\ served \subseteq Servers \X Hosts \X Addresses
  /\ late \subseteq Servers \X Hosts
  /\ at \in [Lookups -> Servers]
  /\ pc \in [Lookups -> {"idle", "asking", "adding", "create", "write"}]
  /\ found \in [Lookups -> [Hosts -> {None} \union
                [ip : Addresses, next : {"ip", "name", "remove"}]]]
  /\ snap \in [Lookups -> Mappings]
  /\ file \in [state : {"empty", "torn", "ok"}, entries : Mappings]

(* Every registration that zeroconf answers for is one its server knows of,
   with one address for each hostname, and can clean up; whatever lookups add
   and remove at the same time, and whichever registration fails.  A service
   that was closed leaves none, before another is built or after, but what a
   lookup that was under way at the Shutdown, or the worker after it, has added
   since: that nobody cleans up. *)
RegistrationsTracked ==
  /\ served = {r \in Servers \X Hosts \X Addresses :
                 mapped[r[1]][r[2]] = r[3]}
  /\ \A s \in Servers, h \in Hosts :
       Down(s) /\ mapped[s][h] # None => <<s, h>> \in late

Settled(h, a) ==
  service = "running" /\ multicast /\ reach[h] = "ip" /\ address[h] = a

(* The hostname of a camera that has settled at an address is served with it
   in the end, and with no other by the same server: outdated lookups that end
   late, cached addresses from before a restart and failed registrations are
   all put right.  (The leftovers of a closed service are not.) *)
ResolvesInTheEnd ==
  \A h \in Hosts, a \in Addresses :
    <>[]Settled(h, a)
      => <>[]({r \in served : r[1] = server /\ r[2] = h} = {<<server, h, a>>})

(* And the cache file has it, again and again, so that the next process starts
   with it: an outdated, torn or truncated file is replaced, even one that a
   call of the service before has written. *)
CachedInTheEnd ==
  \A h \in Hosts, a \in Addresses :
    <>[]Settled(h, a) => []<>(file.entries[h] = a)
=============================================================================
