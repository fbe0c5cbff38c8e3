------------------------- MODULE OnvifLookup_proofs -------------------------
(***************************************************************************)
(* Proofs about OnvifLookup, for any hosts, kinds of devices, callers and  *)
(* any number of faults.                                                   *)
(***************************************************************************)
EXTENDS OnvifLookup, TLAPS

Public(cred) == cred # "extra"

(* The state of the lookups has a component for each. *)
Shape ==
  /\ extra \in [Lookups -> BOOLEAN]
  /\ DOMAIN pc = Lookups /\ DOMAIN asking = Lookups
  /\ DOMAIN ch = Lookups /\ DOMAIN configs = Lookups

(* What lookup l has in its hands was found with the service's credentials,
   which come first. *)
Unprivileged(l) ==
  /\ \A h \in DOMAIN asking[l] : asking[l][h] \in {Done, 1, 2}
  /\ \A cam \in ch[l] : Public(cam.cred)
  /\ \A c \in configs[l] : Public(c.uri.cred)

(* A lookup that begins anew has nothing left from the one before. *)
Fresh(l) ==
  /\ pc[l] # "asking" => DOMAIN asking[l] = {} /\ ch[l] = {}
  /\ pc[l] \in {"idle", "probing"} => configs[l] = {}

Privacy ==
  /\ Shape
  /\ \A l \in Lookups : Fresh(l)
  /\ \A l \in Lookups : ~extra[l] => Unprivileged(l)
  /\ CachedArePrivate

(* Without a credential of its own a lookup has two to try. *)
LEMMA TwoCredentials ==
  ASSUME NEW l, ~extra[l]
  PROVE  Len(Creds(l)) = 2 /\ \A i \in {1, 2} : Public(Creds(l)[i])
<1>1. Creds(l) = <<"none", "configured">> \o <<>>
  BY DEF Creds
<1>2. Creds(l) = <<"none", "configured">>
  BY <1>1
<1> QED
  BY <1>2 DEF Public

(* A configuration has the credential of the camera it was made for. *)
LEMMA ConfigsKeepCredential ==
  ASSUME NEW cam, NEW named, NEW c \in Configs(cam, named)
  PROVE  c.uri.cred = cam.cred
BY DEF Configs, URI

LEMMA InitPrivacy == Init => Privacy
<1> SUFFICES ASSUME Init PROVE Privacy
  OBVIOUS
<1>1. DOMAIN <<>> = {}
  OBVIOUS
<1> QED
  BY <1>1 DEF Init, Privacy, Shape, Unprivileged, Fresh, CachedArePrivate

LEMMA BeginPrivacy ==
  ASSUME Privacy, NEW l \in Lookups, Begin(l)
  PROVE  Privacy'
<1>1. PICK e \in BOOLEAN :
        /\ extra' = [extra EXCEPT ![l] = e]
        /\ pc' = [pc EXCEPT ![l] =
             IF l \in Callers /\ ~e /\ discoveredResources # {}
             THEN "returned" ELSE "probing"]
  BY DEF Begin
<1>2. /\ DOMAIN asking[l] = {} /\ ch[l] = {} /\ configs[l] = {}
      /\ UNCHANGED <<asking, ch, configs, discoveredResources>>
  BY DEF Privacy, Fresh, Begin, serviceVars
<1>3. Shape'
  BY <1>1, <1>2 DEF Privacy, Shape
<1>4. ASSUME NEW m \in Lookups PROVE Fresh(m)'
  BY <1>1, <1>2, <1>4 DEF Privacy, Shape, Fresh
<1>5. ASSUME NEW m \in Lookups, ~extra'[m] PROVE Unprivileged(m)'
  <2>1. CASE m = l
    BY <2>1, <1>2 DEF Unprivileged
  <2>2. CASE m # l
    BY <2>2, <1>1, <1>2, <1>5 DEF Privacy, Shape, Unprivileged
  <2> QED
    BY <2>1, <2>2
<1> QED
  BY <1>2, <1>3, <1>4, <1>5 DEF Privacy, CachedArePrivate

LEMMA ProbePrivacy ==
  ASSUME Privacy, NEW l \in Lookups, Probe(l)
  PROVE  Privacy'
<1>1. PICK found \in SUBSET Hosts :
        asking' = [asking EXCEPT ![l] = [h \in found |-> 1]]
  BY DEF Probe
<1>2. /\ pc' = [pc EXCEPT ![l] = "asking"]
      /\ UNCHANGED <<extra, ch, configs, discoveredResources>>
  BY DEF Probe, serviceVars
<1>3. Shape'
  BY <1>1, <1>2 DEF Privacy, Shape
<1>4. ASSUME NEW m \in Lookups PROVE Fresh(m)'
  BY <1>1, <1>2, <1>4 DEF Privacy, Shape, Fresh
<1>5. ASSUME NEW m \in Lookups, ~extra'[m] PROVE Unprivileged(m)'
  BY <1>1, <1>2, <1>5 DEF Privacy, Shape, Unprivileged
<1> QED
  BY <1>2, <1>3, <1>4, <1>5 DEF Privacy, CachedArePrivate

(* The steps of a device's goroutine. *)
LEMMA AskPrivacy ==
  ASSUME Privacy, NEW l \in Lookups, NEW h \in DOMAIN asking[l], Ask(l, h)
  PROVE  Privacy'
<1>1. /\ asking[l][h] # Done
      /\ pc[l] = "asking"
      /\ UNCHANGED <<pc, extra, configs, discoveredResources>>
  BY DEF Privacy, Fresh, Ask, Refused, Described, Interrupted, serviceVars
<1>2. PICK next :
        /\ asking' = [asking EXCEPT ![l][h] = next]
        /\ next \in {Done, NextCredential(l, h)}
  BY DEF Ask, Refused, Described, Interrupted
<1>3. ~extra[l] => next \in {Done, 1, 2}
  <2> SUFFICES ASSUME ~extra[l] PROVE next \in {Done, 1, 2}
    OBVIOUS
  <2>1. asking[l][h] \in {1, 2}
    BY <1>1 DEF Privacy, Unprivileged, Done
  <2>2. NextCredential(l, h) \in {Done, 2}
    <3>1. Len(Creds(l)) = 2
      BY TwoCredentials
    <3> QED
      BY <2>1, <3>1 DEF NextCredential
  <2> QED
    BY <1>2, <2>2
<1>4. \/ ch' = ch
      \/ \E cam : /\ ch' = [ch EXCEPT ![l] = @ \union {cam}]
                  /\ cam.cred = Creds(l)[asking[l][h]]
  <2>1. CASE Described(l, h)
    <3>1. PICK info \in MediaInfo(l, h, Creds(l)[asking[l][h]]) :
            ch' = [ch EXCEPT ![l] = @ \union
                     {[host |-> h, cred |-> Creds(l)[asking[l][h]],
                       media |-> info.media, ptz |-> info.ptz]}]
      BY <2>1 DEF Described
    <3> DEFINE cam == [host |-> h, cred |-> Creds(l)[asking[l][h]],
                       media |-> info.media, ptz |-> info.ptz]
    <3>2. cam.cred = Creds(l)[asking[l][h]]
      OBVIOUS
    <3> HIDE DEF cam
    <3> QED
      BY <3>1, <3>2 DEF cam
  <2>2. CASE Refused(l, h) \/ Interrupted(l, h)
    BY <2>2 DEF Refused, Interrupted
  <2> QED
    BY <2>1, <2>2 DEF Ask
<1>5. DOMAIN ch' = Lookups /\ \A m \in Lookups \ {l} : ch'[m] = ch[m]
  BY <1>4 DEF Privacy, Shape
<1>6. ~extra[l] => \A cam \in ch'[l] : Public(cam.cred)
  <2> SUFFICES ASSUME ~extra[l], NEW cam \in ch'[l] PROVE Public(cam.cred)
    OBVIOUS
  <2>1. Public(Creds(l)[asking[l][h]])
    BY <1>1, TwoCredentials DEF Privacy, Unprivileged
  <2>2. cam \in ch[l] \/ cam.cred = Creds(l)[asking[l][h]]
    BY <1>4 DEF Privacy, Shape
  <2> QED
    BY <2>1, <2>2 DEF Privacy, Unprivileged
<1>7. Shape'
  BY <1>1, <1>2, <1>5 DEF Privacy, Shape
<1>8. ASSUME NEW m \in Lookups PROVE Fresh(m)'
  BY <1>1, <1>2, <1>5, <1>8 DEF Privacy, Shape, Fresh
<1>9. ASSUME NEW m \in Lookups, ~extra'[m] PROVE Unprivileged(m)'
  <2>1. CASE m = l
    BY <2>1, <1>1, <1>2, <1>3, <1>6, <1>9 DEF Privacy, Shape, Unprivileged
  <2>2. CASE m # l
    BY <2>2, <1>1, <1>2, <1>5, <1>9 DEF Privacy, Shape, Unprivileged
  <2> QED
    BY <2>1, <2>2
<1> QED
  BY <1>1, <1>7, <1>8, <1>9 DEF Privacy, CachedArePrivate

LEMMA ConfigurePrivacy ==
  ASSUME Privacy, NEW l \in Lookups, Configure(l)
  PROVE  Privacy'
<1>1. PICK named \in SUBSET Nameable(ch[l]) :
        configs' = [configs EXCEPT ![l] =
          UNION {Configs(cam, cam.host \in named) : cam \in ch[l]}]
  BY DEF Configure
<1>2. /\ pc' = [pc EXCEPT ![l] =
              IF ch[l] # {} THEN "previews"
              ELSE IF l = Worker THEN "idle" ELSE "returned"]
      /\ ch' = [ch EXCEPT ![l] = {}]
      /\ asking' = [asking EXCEPT ![l] = <<>>]
      /\ UNCHANGED <<extra, discoveredResources>>
  BY DEF Configure, serviceVars
<1>3. DOMAIN <<>> = {}
  OBVIOUS
<1>4. Shape'
  BY <1>1, <1>2 DEF Privacy, Shape
<1>5. \A m \in Lookups : m # l =>
        /\ pc'[m] = pc[m] /\ asking'[m] = asking[m]
        /\ ch'[m] = ch[m] /\ configs'[m] = configs[m]
  BY <1>1, <1>2 DEF Privacy, Shape
<1>6. /\ asking'[l] = <<>> /\ ch'[l] = {}
      /\ configs'[l] = UNION {Configs(cam, cam.host \in named) : cam \in ch[l]}
      /\ pc'[l] # "asking"
      /\ pc'[l] \in {"idle", "probing"} => ch[l] = {}
  BY <1>1, <1>2 DEF Privacy, Shape
<1>7. ASSUME NEW m \in Lookups PROVE Fresh(m)'
  <2>1. CASE m = l
    BY <2>1, <1>3, <1>6, <1>7 DEF Fresh
  <2>2. CASE m # l
    BY <2>2, <1>5, <1>7 DEF Privacy, Fresh
  <2> QED
    BY <2>1, <2>2
<1>8. ASSUME NEW m \in Lookups, ~extra'[m] PROVE Unprivileged(m)'
  <2>1. CASE m = l
    <3>1. ASSUME NEW c \in configs'[l] PROVE Public(c.uri.cred)
      <4>1. PICK cam \in ch[l] : c \in Configs(cam, cam.host \in named)
        BY <1>6, <3>1
      <4>2. c.uri.cred = cam.cred
        BY <4>1, ConfigsKeepCredential
      <4>3. Public(cam.cred)
        BY <1>2, <1>8, <2>1, <4>1 DEF Privacy, Unprivileged
      <4> QED
        BY <4>2, <4>3
    <3> QED
      BY <2>1, <3>1, <1>3, <1>6 DEF Unprivileged
  <2>2. CASE m # l
    BY <2>2, <1>2, <1>5, <1>8 DEF Privacy, Unprivileged
  <2> QED
    BY <2>1, <2>2
<1> QED
  BY <1>2, <1>4, <1>7, <1>8 DEF Privacy, CachedArePrivate

LEMMA SetPreviewsPrivacy ==
  ASSUME Privacy, NEW l \in Lookups, SetPreviews(l)
  PROVE  Privacy'
<1>1. /\ pc[l] = "previews" /\ pc' = [pc EXCEPT ![l] = "caching"]
      /\ UNCHANGED <<extra, asking, ch, configs, discoveredResources>>
  BY DEF SetPreviews
<1>2. Shape'
  BY <1>1 DEF Privacy, Shape
<1>3. ASSUME NEW m \in Lookups PROVE Fresh(m)'
  BY <1>1 DEF Privacy, Shape, Fresh
<1> QED
  BY <1>1, <1>2, <1>3 DEF Privacy, Unprivileged, CachedArePrivate

LEMMA CachePrivacy ==
  ASSUME Privacy, NEW l \in Lookups, Cache(l)
  PROVE  Privacy'
<1>1. /\ discoveredResources' =
             IF extra[l] THEN discoveredResources ELSE configs[l]
      /\ configs' = [configs EXCEPT ![l] = {}]
      /\ pc[l] = "caching"
      /\ pc' = [pc EXCEPT ![l] = IF l = Worker THEN "idle" ELSE "returned"]
      /\ UNCHANGED <<extra, asking, ch>>
  BY DEF Cache
<1>2. Shape'
  BY <1>1 DEF Privacy, Shape
<1>3. ASSUME NEW m \in Lookups PROVE Fresh(m)'
  BY <1>1 DEF Privacy, Shape, Fresh
<1>4. ASSUME NEW m \in Lookups, ~extra'[m] PROVE Unprivileged(m)'
  BY <1>1, <1>4 DEF Privacy, Shape, Unprivileged
<1>5. CachedArePrivate'
  BY <1>1 DEF Privacy, Unprivileged, CachedArePrivate, Public
<1> QED
  BY <1>2, <1>3, <1>4, <1>5 DEF Privacy

LEMMA NextPrivacy == Privacy /\ [Next]_vars => Privacy'
<1> SUFFICES ASSUME Privacy, [Next]_vars PROVE Privacy'
  OBVIOUS
<1>1. ASSUME UNCHANGED <<pc, extra, asking, ch, configs, discoveredResources>>
      PROVE  Privacy'
  BY <1>1 DEF Privacy, Shape, Fresh, Unprivileged, CachedArePrivate
<1>2. CASE UNCHANGED vars
  BY <1>1, <1>2 DEF vars, lookupVars, serviceVars
<1>3. ASSUME NEW l \in Lookups, Cancel(l) PROVE Privacy'
  BY <1>1, <1>3 DEF Cancel, serviceVars
<1>4. ASSUME NEW l \in Lookups, Begin(l) PROVE Privacy'
  BY <1>4, BeginPrivacy
<1>5. ASSUME NEW l \in Lookups, Proceed(l) PROVE Privacy'
  BY <1>5, ProbePrivacy, ConfigurePrivacy, SetPreviewsPrivacy, CachePrivacy
     DEF Proceed
<1>6. ASSUME NEW l \in Lookups, NEW h \in DOMAIN asking[l], Ask(l, h)
      PROVE  Privacy'
  BY <1>6, AskPrivacy
<1> QED
  BY <1>2, <1>3, <1>4, <1>5, <1>6 DEF Next

----------------------------------------------------------------------------
(* What later callers are given was found with the credentials of the service,
   however many privileged lookups run at the same time. *)
THEOREM LookupCachedArePrivate == Spec => []CachedArePrivate
<1>1. Privacy => CachedArePrivate
  BY DEF Privacy
<1> QED
  BY InitPrivacy, NextPrivacy, <1>1, PTL DEF Spec
=============================================================================
