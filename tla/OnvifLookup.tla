----------------------------- MODULE OnvifLookup -----------------------------
(***************************************************************************)
(* How the ONVIF discovery service finds cameras: WS-Discovery, one        *)
(* goroutine per device that tries credentials one after the other, the    *)
(* configurations made from the answers, and the two results the service   *)
(* keeps, discoveredResources and rtspToSnapshotURIs                       *)
(* (viamonvif/service.go, discovery.go, wsdiscovery.go, device/device.go). *)
(*                                                                         *)
(* A lookup is run by the background worker or by a caller of              *)
(* DiscoverResources, who may give a credential of his own and may cancel  *)
(* his context.  A device is known by the host of its address and has two  *)
(* media profiles, the second with PTZ.  The mDNS server and its cache     *)
(* file, which a lookup also updates, are the subject of Discovery.        *)
(***************************************************************************)
EXTENDS Naturals, FiniteSets, SequencesExt

CONSTANTS
  Hosts,    \* hosts that may have an ONVIF device
  Networks, \* which kinds of device are at the hosts, see KindType
  Worker,   \* the background worker
  Callers,  \* calls of DiscoverResources
  MaxFaults \* bound on answers that are lost and calls that fail for no
            \* lasting reason

(* needs: the calls that need the device's credential, which is either in the
   service's configuration or what a caller may give as extra.  identified:
   it has a MAC address or a serial number to be named by; reports: its stream
   URIs contain the address it was found at; answers: it does not leave
   requests open. *)
KindType == [needs : {"nothing", "streams", "everything"},
             secret : {"configured", "extra"},
             identified : BOOLEAN, reports : BOOLEAN, answers : BOOLEAN]

ASSUME LookupAssumption ==
  /\ Networks \subseteq [Hosts -> KindType]
  /\ Worker \notin Callers
  /\ MaxFaults \in Nat

Lookups == {Worker} \union Callers
Profiles == 1 .. 2

VARIABLES
  device,     \* device[h]: the kind of the device at the host
  faults,     \* number of faults so far
  pc,         \* pc[l]: where the lookup stands
  extra,      \* extra[l]: the caller gave a credential
  cancelled,  \* cancelled[l]: the lookup's context is done
  asking,     \* asking[l][h]: the credential the device's goroutine tries, by
              \* its number, or Done
  ch,         \* ch[l]: the camera infos in the channel
  configs,    \* configs[l]: the configurations made from them
  discoveredResources,
  rtspToSnapshotURIs

lookupVars == <<pc, extra, cancelled, asking, ch, configs>>
serviceVars == <<discoveredResources, rtspToSnapshotURIs>>
vars == <<device, faults, lookupVars, serviceVars>>

Done == 0

Init ==
  /\ device \in Networks /\ faults = 0
  /\ pc = [l \in Lookups |-> "idle"]
  /\ extra = [l \in Lookups |-> FALSE]
  /\ cancelled = [l \in Lookups |-> FALSE]
  /\ asking = [l \in Lookups |-> <<>>]
  /\ ch = [l \in Lookups |-> {}]
  /\ configs = [l \in Lookups |-> {}]
  /\ discoveredResources = {} /\ rtspToSnapshotURIs = {}

----------------------------------------------------------------------------
(* k faults, if the bound allows them. *)
Fault(k) == faults + k <= MaxFaults /\ faults' = faults + k

(* Callers lose patience; Close cancels the worker. *)
Cancel(l) ==
  /\ ~cancelled[l]
  /\ pc[l] \notin {"idle", "returned"} \/ l = Worker
  /\ cancelled' = [cancelled EXCEPT ![l] = TRUE]
  /\ UNCHANGED <<device, faults, pc, extra, asking, ch, configs, serviceVars>>

(* The worker's ticker, or a call: without a credential of its own it gets
   what was found before, if anything was. *)
Begin(l) ==
  /\ pc[l] = "idle"
  /\ l = Worker => ~cancelled[l]
  /\ \E e \in (IF l = Worker THEN {FALSE} ELSE BOOLEAN) :
       /\ extra' = [extra EXCEPT ![l] = e]
       /\ pc' = [pc EXCEPT ![l] =
            IF l \in Callers /\ ~e /\ discoveredResources # {}
            THEN "returned" ELSE "probing"]
  /\ UNCHANGED <<device, faults, cancelled, asking, ch, configs, serviceVars>>

(* WSDiscovery on every interface, three probes each: one entry per host.
   Any answer may be lost, and a cancelled lookup finds nobody. *)
Probe(l) ==
  /\ pc[l] = "probing"
  /\ \E found \in SUBSET Hosts :
       /\ \/ cancelled[l] /\ found = {} /\ UNCHANGED faults
          \/ ~cancelled[l] /\ Fault(Cardinality(Hosts \ found))
       /\ asking' = [asking EXCEPT ![l] = [h \in found |-> 1]]
  /\ pc' = [pc EXCEPT ![l] = "asking"]
  /\ UNCHANGED <<device, extra, cancelled, ch, configs, serviceVars>>

(* The credentials, in the order of runDiscoveryLookup. *)
Creds(l) ==
  <<"none", "configured">> \o (IF extra[l] THEN <<"extra">> ELSE <<>>)

(* callOnvifServiceMethod: some calls need the credential. *)
Served(h, cred, call) ==
  \/ device[h].needs = "nothing"
  \/ device[h].needs = "streams" /\ call # "streams"
  \/ device[h].secret = cred

(* Mutant: a device that refuses a credential is given up. *)
NextGivesUp(l, h) == Done

(* DiscoverCameraInfo goes on to the next credential, if there is one. *)
NextCredential(l, h) ==
  IF asking[l][h] < Len(Creds(l)) THEN asking[l][h] + 1 ELSE Done

(* NewDevice, GetDeviceInformation or GetProfiles fails. *)
Refused(l, h) ==
  /\ asking[l][h] # Done
  /\ device[h].answers
  /\ ~cancelled[l]
  /\ Fault(IF Served(h, Creds(l)[asking[l][h]], "describe") THEN 1 ELSE 0)
  /\ asking' = [asking EXCEPT ![l][h] = NextCredential(l, h)]
  /\ UNCHANGED <<device, pc, extra, cancelled, ch, configs, serviceVars>>

(* GetMediaInfoFromProfiles: profiles whose stream URI cannot be had are left
   out, be it because the lookup is cancelled, which is neither an error nor a
   reason to try another credential; PTZ needs another call, which may fail as
   well. *)
MediaInfo(l, h, cred) ==
  LET info(media, ptz, k) == [media |-> media, ptz |-> ptz, faults |-> k]
  IN IF ~Served(h, cred, "streams") THEN {info(<<>>, <<>>, 0)}
     ELSE IF cancelled[l] THEN {info(<<>>, <<>>, 0), info(<<1>>, <<>>, 0)}
     ELSE {info(<<1, 2>>, <<2>>, 0), info(<<1, 2>>, <<>>, 1),
           info(<<2>>, <<2>>, 1)}

(* Mutant: a channel of one, for nobody receives before all have sent. *)
CapacityOne(l) == 1

(* DiscoverCameras makes a channel with room for all answers ... *)
Capacity(l) == Cardinality(DOMAIN asking[l])

(* GetCameraInfo succeeds, and its answer is sent. *)
Described(l, h) ==
  /\ asking[l][h] # Done
  /\ device[h].answers
  /\ Cardinality(ch[l]) < Capacity(l)
  /\ LET cred == Creds(l)[asking[l][h]]
     IN /\ Served(h, cred, "describe")
        /\ \E info \in MediaInfo(l, h, cred) :
             /\ Fault(info.faults)
             /\ ch' = [ch EXCEPT ![l] = @ \union
                         {[host |-> h, cred |-> cred, media |-> info.media,
                           ptz |-> info.ptz]}]
  /\ asking' = [asking EXCEPT ![l][h] = Done]
  /\ UNCHANGED <<device, pc, extra, cancelled, configs, serviceVars>>

(* The context is looked at before each credential, and every request ends
   with it, and not before: the client has no timeout of its own. *)
Interrupted(l, h) ==
  /\ asking[l][h] # Done
  /\ cancelled[l]
  /\ asking' = [asking EXCEPT ![l][h] = Done]
  /\ UNCHANGED <<device, faults, pc, extra, cancelled, ch, configs, serviceVars>>

----------------------------------------------------------------------------
(* tryMDNS: the camera's name, if it can be registered, and what the URIs say
   then.  A name whose address no URI contains is kept although it is not
   served. *)
URI(cam, profile, named) ==
  [host |-> cam.host, cred |-> cam.cred, profile |-> profile,
   name |-> named /\ device[cam.host].reports]

(* createCamerasFromURLs, createPTZClientFromInfo *)
Configs(cam, named) ==
  LET config(model, profile) ==
        [model |-> model, uri |-> URI(cam, profile, named)]
  IN {config("camera", p) : p \in ToSet(cam.media)}
       \union {config("ptz", p) : p \in ToSet(cam.ptz)}

Nameable(cams) == {cam.host : cam \in {c \in cams : device[c.host].identified}}

(* ... waits for the goroutines, and only then empties it.  Every camera that
   has a stream is configured; registering a name may fail for any of them.
   A lookup that found nobody is an error and leaves what the service keeps
   alone. *)
Configure(l) ==
  /\ pc[l] = "asking"
  /\ \A h \in DOMAIN asking[l] : asking[l][h] = Done
  /\ \E named \in SUBSET Nameable(ch[l]) :
       /\ Fault(Cardinality(Nameable(ch[l]) \ named))
       /\ configs' = [configs EXCEPT ![l] =
            UNION {Configs(cam, cam.host \in named) : cam \in ch[l]}]
  /\ pc' = [pc EXCEPT ![l] =
              IF ch[l] # {} THEN "previews"
              ELSE IF l = Worker THEN "idle" ELSE "returned"]
  /\ ch' = [ch EXCEPT ![l] = {}]
  /\ asking' = [asking EXCEPT ![l] = <<>>]
  /\ UNCHANGED <<device, extra, cancelled, serviceVars>>

(* rtspToSnapshotURIs is replaced by every lookup, under its own lock ... *)
SetPreviews(l) ==
  /\ pc[l] = "previews"
  /\ rtspToSnapshotURIs' = {c.uri : c \in {x \in configs[l] : x.model = "camera"}}
  /\ pc' = [pc EXCEPT ![l] = "caching"]
  /\ UNCHANGED <<device, faults, extra, cancelled, asking, ch, configs,
                 discoveredResources>>

(* Mutant: what was found with a caller's credential is kept. *)
CacheAll(l) ==
  /\ pc[l] = "caching"
  /\ discoveredResources' = configs[l]
  /\ configs' = [configs EXCEPT ![l] = {}]
  /\ pc' = [pc EXCEPT ![l] = IF l = Worker THEN "idle" ELSE "returned"]
  /\ UNCHANGED <<device, faults, extra, cancelled, asking, ch,
                 rtspToSnapshotURIs>>

(* ... and discoveredResources, later, by those without a credential of their
   own. *)
Cache(l) ==
  /\ pc[l] = "caching"
  /\ discoveredResources' = IF extra[l] THEN discoveredResources ELSE configs[l]
  /\ configs' = [configs EXCEPT ![l] = {}]
  /\ pc' = [pc EXCEPT ![l] = IF l = Worker THEN "idle" ELSE "returned"]
  /\ UNCHANGED <<device, faults, extra, cancelled, asking, ch,
                 rtspToSnapshotURIs>>

(* preview: by the snapshot URI if the stream has one, through RTSP if not. *)
PreviewSource(uri) == IF uri \in rtspToSnapshotURIs THEN "snapshot" ELSE "rtsp"

----------------------------------------------------------------------------
Ask(l, h) == Refused(l, h) \/ Described(l, h) \/ Interrupted(l, h)

Proceed(l) == Probe(l) \/ Configure(l) \/ SetPreviews(l) \/ Cache(l)

Next ==
  \E l \in Lookups :
    \/ Begin(l) \/ Cancel(l) \/ Proceed(l)
    \/ \E h \in DOMAIN asking[l] : Ask(l, h)

(* A lookup that runs goes on, each of its goroutines included unless its
   device leaves it waiting; the worker's ticker fires. *)
Fairness ==
  /\ WF_vars(Begin(Worker))
  /\ \A l \in Lookups :
       /\ WF_vars(Proceed(l))
       /\ \A h \in Hosts : WF_vars(h \in DOMAIN asking[l] /\ Ask(l, h))

Spec == Init /\ [][Next]_vars /\ Fairness

----------------------------------------------------------------------------
(* Properties. *)

(* What a caller finds with a credential of his own is told to him only: later
   calls, by anybody, never get a configuration that contains it, although all
   lookups share the service's state. *)
CachedArePrivate == \A c \in discoveredResources : c.uri.cred # "extra"

(* Every lookup ends, however many devices answer, as long as all do; and even
   if some do not when it is cancelled: the goroutines never wait for a reader
   that waits for them. *)
AllAnswer == \A h \in Hosts : device[h].answers
LookupReturns ==
  \A l \in Lookups :
    pc[l] \notin {"idle", "returned"} /\ (AllAnswer \/ cancelled[l])
      ~> pc[l] \in {"idle", "returned"}

(* The streams of a device that a credential of the service opens, and that
   does not describe itself to anybody only to refuse its streams. *)
Reachable(h) ==
  \/ device[h].needs = "nothing"
  \/ device[h].needs = "everything" /\ device[h].secret = "configured"

(* When faults and calls end, and no device leaves a lookup waiting, all
   profiles of every device that the service has the credential for are in its
   list for good, and their previews come from the device's snapshots:
   whatever slower, cancelled or privileged lookups stored in between. *)
ListedInTheEnd ==
  AllAnswer /\ []~cancelled[Worker] =>
    <>[](\A h \in Hosts : Reachable(h) =>
           \A p \in Profiles :
             \E c \in discoveredResources :
               /\ c.model = "camera" /\ c.uri.host = h /\ c.uri.profile = p
               /\ PreviewSource(c.uri) = "snapshot")
=============================================================================
