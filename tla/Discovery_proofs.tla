-------------------------- MODULE Discovery_proofs --------------------------
(***************************************************************************)
(* Proofs about Discovery, for any hostnames, addresses and lookups and    *)
(* any number of services built in one process.                            *)
(***************************************************************************)
EXTENDS Discovery, TLAPS

Found == [Hosts -> {None} \union
            [ip : Addresses, next : {"ip", "name", "remove"}]]

(* The registrations that belong to the servers' mappings m. *)
RegistrationsOf(m) ==
  {r \in Servers \X Hosts \X Addresses : m[r[1]][r[2]] = r[3]}

(* Those in R that are not of s for h. *)
Others(R, s, h) == {r \in R : r[1] # s \/ r[2] # h}

(* m with the hostname h of server s mapped to a. *)
Mapped(m, s, h, a) == [m EXCEPT ![s][h] = a]

(* Only servers that were built have mappings. *)
OnlyBuilt ==
  /\ \A s \in Servers : s > server => mapped[s] = NoMapping
  /\ \A l \in Lookups : at[l] <= server

(* A crash leaves no mapping and no lookup that would make one. *)
CrashLeavesNothing ==
  service = "crashed" =>
    /\ server = 1
    /\ \A s \in Servers : mapped[s] = NoMapping
    /\ \A l \in Lookups : pc[l] = "idle"

DiscoveryInv ==
  TypeOK /\ RegistrationsTracked /\ OnlyBuilt /\ CrashLeavesNothing

LEMMA MappingsFacts ==
  /\ 1 \in Servers
  /\ NoMapping \in Mappings
  /\ \A h \in Hosts : NoMapping[h] = None
  /\ NoMapping \in Found
  BY DiscoveryAssumption DEF NoMapping, Mappings, Found, Servers

(* What changes when one hostname of one server is mapped anew. *)
LEMMA MappedFacts ==
  ASSUME NEW m \in [Servers -> Mappings], NEW s \in Servers, NEW h \in Hosts,
         NEW a \in Addresses \union {None}
  PROVE  /\ Mapped(m, s, h, a) \in [Servers -> Mappings]
         /\ Mapped(m, s, h, a)[s][h] = a
         /\ \A t \in Servers, g \in Hosts :
              t # s \/ g # h => Mapped(m, s, h, a)[t][g] = m[t][g]
         /\ \A t \in Servers : t # s => Mapped(m, s, h, a)[t] = m[t]
<1>1. m[s] \in [Hosts -> Addresses \union {None}]
  BY DEF Mappings
<1>2. [m[s] EXCEPT ![h] = a] \in [Hosts -> Addresses \union {None}]
  BY <1>1
<1>3. Mapped(m, s, h, a) = [m EXCEPT ![s] = [m[s] EXCEPT ![h] = a]]
  BY DEF Mapped
<1> QED
  BY <1>1, <1>2, <1>3 DEF Mappings

(* Cleaning a hostname up leaves the registrations of the others. *)
LEMMA CleanUp ==
  ASSUME NEW m \in [Servers -> Mappings], NEW s \in Servers, NEW h \in Hosts
  PROVE  Others(RegistrationsOf(m), s, h)
           = RegistrationsOf(Mapped(m, s, h, None))
<1> DEFINE n == Mapped(m, s, h, None)
<1>1. /\ n[s][h] = None
      /\ \A t \in Servers, g \in Hosts : t # s \/ g # h => n[t][g] = m[t][g]
  BY MappedFacts
<1> HIDE DEF n
<1>2. None \notin Addresses
  BY DiscoveryAssumption
<1>3. ASSUME NEW r \in Servers \X Hosts \X Addresses
      PROVE  (m[r[1]][r[2]] = r[3] /\ (r[1] # s \/ r[2] # h))
               <=> n[r[1]][r[2]] = r[3]
  BY <1>1, <1>2
<1>4. RegistrationsOf(n) = Others(RegistrationsOf(m), s, h)
  BY <1>3 DEF RegistrationsOf, Others
<1> QED
  BY <1>4 DEF n

(* Registering one adds it to them. *)
LEMMA RegisterOne ==
  ASSUME NEW m \in [Servers -> Mappings], NEW s \in Servers, NEW h \in Hosts,
         NEW a \in Addresses
  PROVE  Others(RegistrationsOf(m), s, h) \union {<<s, h, a>>}
           = RegistrationsOf(Mapped(m, s, h, a))
<1> DEFINE n == Mapped(m, s, h, a)
<1>1. /\ n[s][h] = a
      /\ \A t \in Servers, g \in Hosts : t # s \/ g # h => n[t][g] = m[t][g]
  BY MappedFacts
<1> HIDE DEF n
<1>2. <<s, h, a>> \in RegistrationsOf(n)
  BY <1>1 DEF RegistrationsOf
<1>3. ASSUME NEW r \in RegistrationsOf(m), r[1] # s \/ r[2] # h
      PROVE  r \in RegistrationsOf(n)
  BY <1>1, <1>3 DEF RegistrationsOf
<1>4. ASSUME NEW r \in RegistrationsOf(n)
      PROVE  \/ r = <<s, h, a>>
             \/ r \in RegistrationsOf(m) /\ (r[1] # s \/ r[2] # h)
  BY <1>1, <1>4 DEF RegistrationsOf
<1> QED
  BY <1>2, <1>3, <1>4 DEF n, Others

(* The steps that map or unmap one hostname: what they need for the invariant,
   whatever they do to the lookup. *)
OneMapped(s, h, a) ==
  /\ mapped' = Mapped(mapped, s, h, a)
  /\ served' = RegistrationsOf(mapped')
  /\ UNCHANGED <<service, server>>
  /\ late \subseteq late'
  /\ a # None /\ Down(s) => <<s, h>> \in late'

LEMMA OneMappedTracked ==
  ASSUME DiscoveryInv, NEW s \in Servers, NEW h \in Hosts,
         NEW a \in Addresses \union {None}, OneMapped(s, h, a)
  PROVE  /\ mapped' \in [Servers -> Mappings]
         /\ served' \subseteq Servers \X Hosts \X Addresses
         /\ RegistrationsTracked'
<1>1. mapped \in [Servers -> Mappings]
  BY DEF DiscoveryInv, TypeOK
<1>2. /\ mapped' \in [Servers -> Mappings]
      /\ mapped'[s][h] = a
      /\ \A t \in Servers, g \in Hosts :
           t # s \/ g # h => mapped'[t][g] = mapped[t][g]
  BY <1>1, MappedFacts DEF OneMapped
<1>3. served' \subseteq Servers \X Hosts \X Addresses
  BY DEF OneMapped, RegistrationsOf
<1>4. ASSUME NEW t \in Servers, NEW g \in Hosts, Down(t)', mapped'[t][g] # None
      PROVE  <<t, g>> \in late'
  <2>1. Down(t)
    BY <1>4 DEF OneMapped, Down
  <2>2. CASE t = s /\ g = h
    BY <1>2, <1>4, <2>1, <2>2 DEF OneMapped
  <2>3. CASE t # s \/ g # h
    <3>1. <<t, g>> \in late
      BY <1>2, <1>4, <2>1, <2>3 DEF DiscoveryInv, RegistrationsTracked
    <3> QED
      BY <3>1 DEF OneMapped
  <2> QED
    BY <2>2, <2>3
<1> QED
  BY <1>2, <1>3, <1>4 DEF RegistrationsTracked, OneMapped, RegistrationsOf

(* Add maps the hostname to its new address, or to none, or leaves it. *)
LEMMA AddMaps ==
  ASSUME DiscoveryInv, NEW s \in Servers, NEW h \in Hosts, NEW a \in Addresses,
         Add(s, h, a)
  PROVE  \E b \in Addresses \union {None} :
           /\ mapped' = Mapped(mapped, s, h, b)
           /\ served' = RegistrationsOf(mapped')
<1>1. /\ mapped \in [Servers -> Mappings]
      /\ served = RegistrationsOf(mapped)
  BY DEF DiscoveryInv, TypeOK, RegistrationsTracked, RegistrationsOf
<1>2. CASE mapped[s][h] = a /\ UNCHANGED <<mapped, served>>
  <2>1. mapped = Mapped(mapped, s, h, a)
    BY <1>1, <1>2 DEF Mapped, Mappings
  <2> QED
    BY <1>1, <1>2, <2>1
<1>3. CASE /\ mapped' = [mapped EXCEPT ![s][h] = a]
           /\ served' = Cleaned(s, h) \union {<<s, h, a>>}
  <2>1. mapped' = Mapped(mapped, s, h, a)
    BY <1>3 DEF Mapped
  <2>2. served' = RegistrationsOf(mapped')
    <3>1. Cleaned(s, h) = Others(RegistrationsOf(mapped), s, h)
      BY <1>1 DEF Cleaned, Others
    <3>2. Others(RegistrationsOf(mapped), s, h) \union {<<s, h, a>>}
            = RegistrationsOf(Mapped(mapped, s, h, a))
      BY <1>1, RegisterOne
    <3> QED
      BY <1>3, <2>1, <3>1, <3>2
  <2> QED
    BY <2>1, <2>2
<1>4. CASE /\ mapped' = [mapped EXCEPT ![s][h] = None]
           /\ served' = Cleaned(s, h)
  <2>1. mapped' = Mapped(mapped, s, h, None)
    BY <1>4 DEF Mapped
  <2>2. served' = RegistrationsOf(mapped')
    <3>1. Cleaned(s, h) = Others(RegistrationsOf(mapped), s, h)
      BY <1>1 DEF Cleaned, Others
    <3>2. Others(RegistrationsOf(mapped), s, h)
            = RegistrationsOf(Mapped(mapped, s, h, None))
      BY <1>1, CleanUp
    <3> QED
      BY <1>4, <2>1, <3>1, <3>2
  <2> QED
    BY <2>1, <2>2
<1> QED
  BY <1>2, <1>3, <1>4 DEF Add

(* A server that is built anew has the cached mappings, and the leftovers of
   the servers before it are still served and tracked. *)
LEMMA BuildKeepsInvariant ==
  ASSUME DiscoveryInv, NEW s \in Servers, Build(s), mapped[s] = NoMapping,
         service \in {"closed", "crashed"},
         \A t \in Servers : t > s => mapped[t] = NoMapping,
         \A l \in Lookups : at[l] <= s
  PROVE  DiscoveryInv'
<1> DEFINE cached == IF multicast THEN file.entries ELSE NoMapping
<1>1. /\ TypeOK /\ mapped \in [Servers -> Mappings]
      /\ served = RegistrationsOf(mapped)
  BY DEF DiscoveryInv, TypeOK, RegistrationsTracked, RegistrationsOf
<1>2. cached \in Mappings
  BY <1>1, MappingsFacts DEF TypeOK
<1>3. /\ service' = "running" /\ server' = s
      /\ mapped' = [mapped EXCEPT ![s] = cached]
      /\ served' = served \union
            {<<s, h, cached[h]>> : h \in {g \in Hosts : cached[g] # None}}
      /\ UNCHANGED <<network, late, pc, at, found, snap, file>>
  BY DEF Build
<1> HIDE DEF cached
<1>4. /\ mapped' \in [Servers -> Mappings]
      /\ mapped'[s] = cached
      /\ \A t \in Servers \ {s} : mapped'[t] = mapped[t]
  BY <1>1, <1>2, <1>3
<1>5. served' = RegistrationsOf(mapped')
  <2>1. None \notin Addresses /\ \A h \in Hosts : mapped[s][h] = None
    BY DiscoveryAssumption, MappingsFacts
  <2>2. cached \in [Hosts -> Addresses \union {None}]
    BY <1>2 DEF Mappings
  <2>3. ASSUME NEW r \in served
        PROVE  r \in RegistrationsOf(mapped')
    <3>1. r \in Servers \X Hosts \X Addresses /\ mapped[r[1]][r[2]] = r[3]
      BY <1>1, <2>3 DEF RegistrationsOf
    <3>2. r[1] # s
      BY <2>1, <3>1
    <3> QED
      BY <1>4, <3>1, <3>2 DEF RegistrationsOf
  <2>4. ASSUME NEW h \in Hosts, cached[h] # None
        PROVE  <<s, h, cached[h]>> \in RegistrationsOf(mapped')
    <3>1. <<s, h, cached[h]>> \in Servers \X Hosts \X Addresses
      BY <2>2, <2>4
    <3> QED
      BY <1>4, <3>1 DEF RegistrationsOf
  <2>5. ASSUME NEW r \in RegistrationsOf(mapped')
        PROVE  r \in served'
    <3>1. r \in Servers \X Hosts \X Addresses /\ mapped'[r[1]][r[2]] = r[3]
      BY <2>5 DEF RegistrationsOf
    <3>2. CASE r[1] = s
      <4>1. cached[r[2]] = r[3] /\ cached[r[2]] # None
        BY <1>4, <2>1, <3>1, <3>2
      <4>2. r = <<s, r[2], cached[r[2]]>>
        BY <3>1, <3>2, <4>1
      <4> QED
        BY <1>3, <3>1, <4>1, <4>2
    <3>3. CASE r[1] # s
      <4>1. r \in RegistrationsOf(mapped)
        BY <1>4, <3>1, <3>3 DEF RegistrationsOf
      <4> QED
        BY <1>1, <1>3, <4>1
    <3> QED
      BY <3>2, <3>3
  <2> QED
    BY <1>3, <2>3, <2>4, <2>5
<1>6. ASSUME NEW t \in Servers, NEW h \in Hosts, Down(t)', mapped'[t][h] # None
      PROVE  <<t, h>> \in late'
  <2>1. t # s
    BY <1>3, <1>6 DEF Down
  <2>2. Down(t) /\ mapped[t][h] # None
    BY <1>4, <1>6, <2>1 DEF Down
  <2> QED
    BY <1>3, <2>2 DEF DiscoveryInv, RegistrationsTracked
<1>7. RegistrationsTracked'
  BY <1>5, <1>6 DEF RegistrationsTracked, RegistrationsOf
<1>8. OnlyBuilt'
  <2>1. \A t \in Servers : t > s => t # s
    BY DEF Servers
  <2> QED
    BY <1>3, <1>4, <2>1 DEF OnlyBuilt
<1>9. CrashLeavesNothing'
  BY <1>3 DEF CrashLeavesNothing
<1>10. served' \subseteq Servers \X Hosts \X Addresses
  BY <1>5 DEF RegistrationsOf
<1>11. TypeOK'
  BY <1>1, <1>3, <1>4, <1>10 DEF TypeOK, network
<1> QED
  BY <1>7, <1>8, <1>9, <1>11 DEF DiscoveryInv

LEMMA InitDiscovery == Init => DiscoveryInv
<1> SUFFICES ASSUME Init PROVE DiscoveryInv
  OBVIOUS
<1>1. NoFile \in [state : {"empty", "torn", "ok"}, entries : Mappings]
  BY MappingsFacts DEF NoFile
<1>2. found \in [Lookups -> Found]
  BY MappingsFacts DEF Init
<1>3. TypeOK
  BY <1>1, <1>2, MappingsFacts DEF Init, TypeOK, Found
<1>4. RegistrationsTracked
  BY MappingsFacts, DiscoveryAssumption DEF Init, RegistrationsTracked
<1>5. OnlyBuilt
  BY DEF Init, OnlyBuilt
<1>6. CrashLeavesNothing
  BY DEF Init, CrashLeavesNothing
<1> QED
  BY <1>3, <1>4, <1>5, <1>6 DEF DiscoveryInv

(* Steps that leave services and registrations alone, and wake no lookup of a
   crashed service. *)
LEMMA QuietStep ==
  ASSUME DiscoveryInv, UNCHANGED <<service, server, registrations>>,
         TypeOK', at' = at, service # "crashed" \/ pc' = pc
  PROVE  DiscoveryInv'
  BY DEF DiscoveryInv, RegistrationsTracked, OnlyBuilt, CrashLeavesNothing,
         registrations, Down

LEMMA NextDiscovery == DiscoveryInv /\ [Next]_vars => DiscoveryInv'
<1> SUFFICES ASSUME DiscoveryInv, [Next]_vars PROVE DiscoveryInv'
  OBVIOUS
<1>1. /\ TypeOK /\ mapped \in [Servers -> Mappings]
      /\ served = RegistrationsOf(mapped)
      /\ server \in Servers /\ server \in Nat
  BY DEF DiscoveryInv, TypeOK, RegistrationsTracked, RegistrationsOf, Servers
<1>2. CASE NetworkChanges
  <2>1. address' \in [Hosts -> Addresses]
    BY <1>1, <1>2 DEF NetworkChanges, TypeOK
  <2>2. reach' \in [Hosts -> {"no", "ip", "name"}]
    BY <1>1, <1>2 DEF NetworkChanges, TypeOK
  <2>3. multicast' \in BOOLEAN
    BY <1>1, <1>2 DEF NetworkChanges, TypeOK
  <2>4. TypeOK'
    BY <1>1, <1>2, <2>1, <2>2, <2>3 DEF NetworkChanges, TypeOK, registrations
  <2> QED
    BY <1>2, <2>4, QuietStep DEF NetworkChanges
<1>3. ASSUME NEW l \in Lookups, Ask(l) PROVE DiscoveryInv'
  <2>1. TypeOK'
    BY <1>1, <1>3 DEF Ask, TypeOK, network, registrations
  <2>2. OnlyBuilt'
    <3>1. \A k \in Lookups : at'[k] = at[k] \/ at'[k] = server
      BY <1>1, <1>3 DEF Ask, TypeOK
    <3> QED
      BY <1>1, <1>3, <3>1 DEF Ask, OnlyBuilt, DiscoveryInv, registrations
  <2>3. service' # "crashed"
    BY <1>3 DEF Ask
  <2> QED
    BY <1>3, <2>1, <2>2, <2>3
       DEF Ask, DiscoveryInv, RegistrationsTracked, CrashLeavesNothing,
           registrations, Down
<1>4. ASSUME NEW l \in Lookups, Discover(l) PROVE DiscoveryInv'
  <2>1. [h \in Hosts |-> IF reach[h] = "no" THEN None
                         ELSE [ip |-> address[h], next |-> reach[h]]] \in Found
    BY <1>1 DEF TypeOK, Found
  <2>2. found' \in [Lookups -> Found]
    BY <1>1, <1>4, <2>1 DEF Discover, TypeOK, Found
  <2>3. TypeOK'
    BY <1>1, <1>4, <2>2 DEF Discover, TypeOK, Found, network, registrations
  <2>4. service # "crashed"
    BY <1>4 DEF Discover, DiscoveryInv, CrashLeavesNothing
  <2> QED
    BY <1>4, <2>3, <2>4, QuietStep DEF Discover
<1>5. ASSUME NEW l \in Lookups,
             FindNothing(l) \/ Collect(l) \/ Create(l) \/ Write(l)
      PROVE  DiscoveryInv'
  <2>1. file' \in [state : {"empty", "torn", "ok"}, entries : Mappings]
    BY <1>1, <1>5, MappingsFacts
       DEF FindNothing, Collect, Create, Write, NoFile, FileOf, TornFile, TypeOK
  <2>2. snap' \in [Lookups -> Mappings]
    <3>1. mapped[at[l]] \in Mappings
      BY <1>1 DEF TypeOK
    <3> QED
      BY <1>1, <1>5, <3>1, MappingsFacts
         DEF FindNothing, Collect, Create, Write, TypeOK
  <2>3. TypeOK'
    BY <1>1, <1>5, <2>1, <2>2
       DEF FindNothing, Collect, Create, Write, TypeOK, network, registrations
  <2>4. service # "crashed"
    BY <1>5 DEF FindNothing, Collect, Create, Write, DiscoveryInv,
                CrashLeavesNothing
  <2> QED
    BY <1>5, <2>3, <2>4, QuietStep DEF FindNothing, Collect, Create, Write
<1>6. ASSUME NEW l \in Lookups, NEW h \in Hosts, Register(l, h) \/ Remove(l, h)
      PROVE  DiscoveryInv'
  <2>1. /\ at[l] \in Servers /\ at[l] <= server
        /\ found[l][h] \in [ip : Addresses, next : {"ip", "name", "remove"}]
    BY <1>1, <1>6 DEF Register, Remove, TypeOK, DiscoveryInv, OnlyBuilt
  <2>2. PICK a \in Addresses \union {None} :
          /\ mapped' = Mapped(mapped, at[l], h, a)
          /\ served' = RegistrationsOf(mapped')
          /\ late' = IF Register(l, h) /\ Down(at[l])
                       THEN late \union {<<at[l], h>>} ELSE late
          /\ a # None => Register(l, h)
    <3>1. CASE Register(l, h)
      BY <2>1, <3>1, AddMaps DEF Register
    <3>2. CASE Remove(l, h) /\ ~Register(l, h)
      <4>1. mapped' = Mapped(mapped, at[l], h, None)
        BY <3>2 DEF Remove, Mapped
      <4>2. served' = RegistrationsOf(mapped')
        <5>1. Cleaned(at[l], h) = Others(RegistrationsOf(mapped), at[l], h)
          BY <1>1 DEF Cleaned, Others
        <5>2. Others(RegistrationsOf(mapped), at[l], h)
                = RegistrationsOf(Mapped(mapped, at[l], h, None))
          BY <1>1, <2>1, CleanUp
        <5> QED
          BY <3>2, <4>1, <5>1, <5>2 DEF Remove
      <4> QED
        BY <3>2, <4>1, <4>2 DEF Remove
    <3> QED
      BY <1>6, <3>1, <3>2
  <2>3. OneMapped(at[l], h, a)
    BY <1>6, <2>2 DEF OneMapped, Register, Remove
  <2>4. /\ mapped' \in [Servers -> Mappings]
        /\ served' \subseteq Servers \X Hosts \X Addresses
        /\ RegistrationsTracked'
    BY <2>1, <2>3, OneMappedTracked
  <2>5. found' \in [Lookups -> Found]
    <3> DEFINE marked == [found[l][h] EXCEPT !.next = "remove"]
    <3>1. marked \in [ip : Addresses, next : {"ip", "name", "remove"}]
      BY <2>1
    <3>2. found[l] \in Found /\ found \in [Lookups -> Found]
      BY <1>1 DEF TypeOK, Found
    <3>3. PICK b \in {None, marked} :
            found' = [found EXCEPT ![l] = [found[l] EXCEPT ![h] = b]]
      BY <1>6 DEF Register, Remove
    <3>4. [found[l] EXCEPT ![h] = b] \in Found
      BY <3>1, <3>2, <3>3 DEF Found
    <3> QED
      BY <3>2, <3>3, <3>4
  <2>6. late' \subseteq Servers \X Hosts
    BY <1>1, <2>1, <2>2 DEF TypeOK
  <2>7. TypeOK'
    BY <1>1, <1>6, <2>4, <2>5, <2>6
       DEF Register, Remove, TypeOK, Found, network
  <2>8. OnlyBuilt'
    <3>1. ASSUME NEW t \in Servers, t > server PROVE mapped'[t] = mapped[t]
      <4>1. t # at[l]
        BY <1>1, <2>1, <3>1 DEF Servers
      <4>2. Mapped(mapped, at[l], h, a)[t] = mapped[t]
        BY <1>1, <2>1, <4>1 DEF Mapped
      <4> QED
        BY <2>2, <4>2
    <3> QED
      BY <1>6, <3>1 DEF Register, Remove, OnlyBuilt, DiscoveryInv
  <2>9. service' # "crashed"
    BY <1>6 DEF Register, Remove, DiscoveryInv, CrashLeavesNothing
  <2> QED
    BY <2>4, <2>7, <2>8, <2>9 DEF DiscoveryInv, CrashLeavesNothing
<1>7. CASE Shutdown
  <2>1. /\ mapped' \in [Servers -> Mappings]
        /\ mapped'[server] = NoMapping
        /\ \A t \in Servers \ {server} : mapped'[t] = mapped[t]
    BY <1>1, <1>7, MappingsFacts DEF Shutdown
  <2>2. ASSUME NEW r \in Servers \X Hosts \X Addresses
        PROVE  (mapped[r[1]][r[2]] = r[3] /\ r[1] # server)
                 <=> mapped'[r[1]][r[2]] = r[3]
    BY <2>1, MappingsFacts, DiscoveryAssumption
  <2>3. served' = RegistrationsOf(mapped')
    BY <1>1, <1>7, <2>2 DEF Shutdown, RegistrationsOf
  <2>4. ASSUME NEW t \in Servers, NEW h \in Hosts, mapped'[t][h] # None
        PROVE  <<t, h>> \in late'
    <3>1. t # server /\ mapped[t][h] # None
      BY <2>1, <2>4, MappingsFacts
    <3> QED
      BY <1>7, <3>1 DEF Shutdown, Down, DiscoveryInv, RegistrationsTracked
  <2>5. RegistrationsTracked'
    BY <2>3, <2>4 DEF RegistrationsTracked, RegistrationsOf
  <2>6. TypeOK'
    BY <1>1, <1>7, <2>1, <2>3 DEF Shutdown, TypeOK, network, RegistrationsOf
  <2> QED
    BY <1>7, <2>1, <2>5, <2>6
       DEF Shutdown, DiscoveryInv, OnlyBuilt, CrashLeavesNothing
<1>8. CASE Stop \/ Closed
  <2>1. TypeOK'
    BY <1>1, <1>8 DEF Stop, Closed, TypeOK, network, registrations
  <2> QED
    BY <1>8, <2>1
       DEF Stop, Closed, DiscoveryInv, RegistrationsTracked, OnlyBuilt,
           CrashLeavesNothing, registrations, Down
<1>9. CASE Crash
  <2>1. /\ mapped' = [s \in Servers |-> NoMapping]
        /\ mapped' \in [Servers -> Mappings]
    BY <1>9, MappingsFacts DEF Crash
  <2>2. TypeOK'
    <3>1. found' \in [Lookups -> Found] /\ snap' \in [Lookups -> Mappings]
      BY <1>9, MappingsFacts DEF Crash
    <3> QED
      BY <1>1, <1>9, <2>1, <3>1, MappingsFacts DEF Crash, TypeOK, Found, network
  <2>3. RegistrationsTracked'
    BY <1>9, <2>1, MappingsFacts, DiscoveryAssumption
       DEF Crash, RegistrationsTracked
  <2> QED
    BY <1>9, <2>1, <2>2, <2>3
       DEF Crash, DiscoveryInv, OnlyBuilt, CrashLeavesNothing
<1>10. CASE Restart
  <2>1. \A s \in Servers : mapped[s] = NoMapping
    BY <1>10 DEF Restart, DiscoveryInv, CrashLeavesNothing
  <2>2. \A l \in Lookups : at[l] <= 1
    BY <1>10 DEF Restart, DiscoveryInv, CrashLeavesNothing, OnlyBuilt
  <2> QED
    BY <1>10, <2>1, <2>2, MappingsFacts, BuildKeepsInvariant DEF Restart
<1>11. CASE Rebuild
  <2>1. server + 1 \in Servers
    BY <1>1, <1>11, DiscoveryAssumption DEF Rebuild, Servers
  <2>2. /\ server + 1 > server
        /\ \A t \in Servers : t > server + 1 => t > server
    BY <1>1 DEF Servers
  <2>3. \A l \in Lookups : at[l] <= server + 1
    <3>1. \A l \in Lookups : at[l] \in Nat /\ at[l] <= server
      BY <1>1 DEF TypeOK, Servers, DiscoveryInv, OnlyBuilt
    <3> QED
      BY <1>1, <3>1
  <2>4. /\ mapped[server + 1] = NoMapping
        /\ \A t \in Servers : t > server + 1 => mapped[t] = NoMapping
    BY <2>1, <2>2 DEF DiscoveryInv, OnlyBuilt
  <2> QED
    BY <1>11, <2>1, <2>3, <2>4, BuildKeepsInvariant DEF Rebuild
<1>12. CASE UNCHANGED vars
  BY <1>1, <1>12
     DEF vars, network, registrations, DiscoveryInv, TypeOK, OnlyBuilt,
         RegistrationsTracked, CrashLeavesNothing, Down
<1> QED
  BY <1>2, <1>3, <1>4, <1>5, <1>6, <1>7, <1>8, <1>9, <1>10, <1>11, <1>12
     DEF Next, Lookup

LEMMA DiscoveryInvariant == Spec => []DiscoveryInv
  BY InitDiscovery, NextDiscovery, PTL DEF Spec

----------------------------------------------------------------------------
(* Mappings, lookups and the cache file keep their types. *)
THEOREM DiscoveryTypeOK == Spec => []TypeOK
  BY DiscoveryInvariant, PTL DEF DiscoveryInv

(* zeroconf answers for the hostnames in the servers' mappedDevices and for no
   others, and a service that was closed leaves no registration but what its
   late lookups have added; however lookups, failures, Close, rebuilds, crashes
   and restarts interleave. *)
THEOREM DiscoveryRegistrationsTracked == Spec => []RegistrationsTracked
  BY DiscoveryInvariant, PTL DEF DiscoveryInv
=============================================================================
