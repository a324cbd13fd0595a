----------------------------- MODULE Inventory ------------------------------
(***************************************************************************)
(* Sites, devices and the licence's limits: discovery                      *)
(* (internal/discovery/discovery.go), the console's site, device and       *)
(* licence routes (internal/webui/server.go) and what a licence key grants *)
(* (internal/license/license.go).                                          *)
(*                                                                         *)
(* A worker is a goroutine of a sweep or a request of the console.  Each   *)
(* store call is one step; what a worker read before is in its task.  A    *)
(* device's number is its place in the order of creation.                  *)
(***************************************************************************)
EXTENDS Naturals, FiniteSets

CONSTANTS
    Worker,      \* sweep goroutines and console requests
    IP,          \* addresses that answer
    Place,       \* sites
    FreeCap,     \* MaxDevices of the free tier
    PaidCap,     \* MaxDevices of the tier a valid key grants
    MaxSites,    \* MaxSites of the licence
    MaxDevices,  \* bound: devices ever registered
    MaxTasks     \* bound: requests and probes

ASSUME InventoryAssumption ==
    /\ FreeCap \in Nat \ {0} /\ PaidCap \in Nat /\ FreeCap <= PaidCap
    /\ MaxSites \in Nat /\ MaxDevices \in Nat /\ MaxTasks \in Nat

VARIABLES
    sites,      \* the store's sites
    box,        \* the store's devices
    cap,        \* MaxDevices of the licence in force
    task,       \* what each worker is doing
    made,       \* devices registered so far
    tasks,      \* tasks started so far
    raced       \* what tasks in flight together may have upset: "limit", "map"

inventoryVars == <<sites, box, cap, task, made, tasks, raced>>

\* The parts of model.Device the limits read.  Notes is "" or says that the
\* licence or an operator stopped the monitoring, or is an operator's own text.
Note == {"", "licence", "Disabled", "own"}
Box == [ip : IP, site : Place, monitored : BOOLEAN, note : Note, ping : BOOLEAN]

Idle == [at |-> "idle"]
Step(w, t) == task' = [task EXCEPT ![w] = t]
At(w, at) == task[w].at = at
Alone(w) == \A v \in Worker \ {w} : task[v] = Idle

Monitored == {d \in DOMAIN box : box[d].monitored}
HasIP(ip) == \E d \in DOMAIN box : box[d].ip = ip       \* Store.DeviceByIP

Put(d, b) == box' = [x \in DOMAIN box \cup {d} |-> IF x = d THEN b ELSE box[x]]

\* A task that starts while another is under way races it.
Starts(w) ==
    /\ task[w] = Idle
    /\ tasks < MaxTasks /\ tasks' = tasks + 1
    /\ raced' = IF Alone(w) THEN raced ELSE {"limit", "map"}

-----------------------------------------------------------------------------
(***************************************************************************)
(* Registration: Sweep and probe, or addDevice.  The site was read at the  *)
(* beginning, the address is looked up, the device identified (seconds),   *)
(* then Register looks again, counts the monitored devices and stores.     *)
(***************************************************************************)
Probe(w, ip, site, ping) ==
    /\ Starts(w)
    /\ site \in sites
    /\ ~HasIP(ip)
    /\ Step(w, [at |-> "register", ip |-> ip, site |-> site, ping |-> ping])
    /\ UNCHANGED <<sites, box, cap, made>>

Register(w) ==
    /\ At(w, "register")
    /\ IF HasIP(task[w].ip)
         THEN Step(w, Idle)
         ELSE Step(w, [at |-> "count", ip |-> task[w].ip, site |-> task[w].site,
                       ping |-> task[w].ping])
    /\ UNCHANGED <<sites, box, cap, made, tasks, raced>>

\* Mutant: the limit is not looked at.
RegisterCountAlways(w) ==
    /\ At(w, "count")
    /\ Step(w, [at |-> "put", ping |-> task[w].ping,
                box |-> [ip |-> task[w].ip, site |-> task[w].site, ping |-> FALSE,
                         monitored |-> TRUE, note |-> ""]])
    /\ UNCHANGED <<sites, box, cap, made, tasks, raced>>

\* Over the limit a device is stored all the same, unmonitored.
RegisterCount(w) ==
    /\ At(w, "count")
    /\ LET room == Cardinality(Monitored) < cap IN
         Step(w, [at |-> "put", ping |-> task[w].ping,
                  box |-> [ip |-> task[w].ip, site |-> task[w].site, ping |-> FALSE,
                           monitored |-> room, note |-> IF room THEN "" ELSE "licence"]])
    /\ UNCHANGED <<sites, box, cap, made, tasks, raced>>

RegisterPut(w) ==
    /\ At(w, "put")
    /\ made < MaxDevices
    /\ made' = made + 1
    /\ Put(made + 1, task[w].box)
    /\ Step(w, IF task[w].ping
                 THEN [at |-> "ping", id |-> made + 1, box |-> [task[w].box EXCEPT !.ping = TRUE]]
                 ELSE Idle)
    /\ UNCHANGED <<sites, cap, tasks, raced>>

\* RegisterPingOnly stores its copy a second time.
RegisterPingOnly(w) ==
    /\ At(w, "ping")
    /\ Put(task[w].id, task[w].box)
    /\ Step(w, Idle)
    /\ UNCHANGED <<sites, cap, made, tasks, raced>>

-----------------------------------------------------------------------------
(***************************************************************************)
(* updateDevice counts the monitored devices, then changes the device      *)
(* under the store's lock.                                                 *)
(***************************************************************************)
EnableCount(w, d) ==
    /\ Starts(w)
    /\ d \in DOMAIN box
    /\ Step(w, [at |-> "enable", id |-> d, room |-> Cardinality(Monitored) < cap])
    /\ UNCHANGED <<sites, box, cap, made>>

Enable(w) ==
    /\ At(w, "enable")
    /\ LET d == task[w].id IN
         box' = IF d \in DOMAIN box /\ ~box[d].monitored /\ task[w].room
                  THEN [box EXCEPT ![d].monitored = TRUE, ![d].note = ""]
                  ELSE box
    /\ Step(w, Idle)
    /\ UNCHANGED <<sites, cap, made, tasks, raced>>

\* The other fields: switched off, a note of the operator's own, another site.
Edit(w, d) ==
    /\ Starts(w)
    /\ d \in DOMAIN box
    /\ \/ box' = [box EXCEPT ![d].monitored = FALSE, ![d].note = "Disabled"]
       \/ box' = [box EXCEPT ![d].note = "own"]
       \/ \E s \in sites : box' = [box EXCEPT ![d].site = s]
    /\ UNCHANGED <<sites, cap, task, made>>

DeleteDevice(w, d) ==
    /\ Starts(w)
    /\ d \in DOMAIN box
    /\ box' = [x \in DOMAIN box \ {d} |-> box[x]]
    /\ UNCHANGED <<sites, cap, task, made>>

-----------------------------------------------------------------------------
\* putSite of a new site: the limit is checked, then the site stored.
PutSiteCheck(w, s) ==
    /\ Starts(w)
    /\ s \notin sites
    /\ Cardinality(sites) < MaxSites
    /\ Step(w, [at |-> "site", site |-> s])
    /\ UNCHANGED <<sites, box, cap, made>>

PutSite(w) ==
    /\ At(w, "site")
    /\ sites' = sites \cup {task[w].site}
    /\ Step(w, Idle)
    /\ UNCHANGED <<box, cap, made, tasks, raced>>

\* DELETE /api/sites/{id}: refused while a device is in the site.
DeleteSiteCheck(w, s) ==
    /\ Starts(w)
    /\ s \in sites
    /\ \A d \in DOMAIN box : box[d].site # s
    /\ Step(w, [at |-> "unsite", site |-> s])
    /\ UNCHANGED <<sites, box, cap, made>>

DeleteSite(w) ==
    /\ At(w, "unsite")
    /\ sites' = sites \ {task[w].site}
    /\ Step(w, Idle)
    /\ UNCHANGED <<box, cap, made, tasks, raced>>

-----------------------------------------------------------------------------
(***************************************************************************)
(* PUT /api/license.  Resolve never fails: whatever is wrong with a key,   *)
(* the answer is the free tier and a notice.  SetLicense puts the answer   *)
(* in force only when the key is valid or empty, and ApplyCap is run with  *)
(* the caps of the answer, in force or not.                                *)
(***************************************************************************)
LicenceKey == {"valid", "empty", "rejected"}
CapsFor(key) == IF key = "valid" THEN PaidCap ELSE FreeCap

\* Begun alone it makes up for earlier races.
SetLicense(w, key) ==
    /\ task[w] = Idle
    /\ tasks < MaxTasks /\ tasks' = tasks + 1
    /\ raced' = IF Alone(w) THEN raced \ {"limit"} ELSE {"limit", "map"}
    /\ cap' = IF key = "rejected" THEN cap ELSE CapsFor(key)
    /\ Step(w, [at |-> "apply", key |-> key, caps |-> CapsFor(key)])
    /\ UNCHANGED <<sites, box, made>>

\* Which devices of a copy keep their slot: the oldest, without those an
\* operator disabled.
Older(devs, d) == {x \in DOMAIN devs : x < d /\ devs[x].note # "Disabled"}
Want(devs, n, d) == devs[d].note # "Disabled" /\ Cardinality(Older(devs, d)) < n

\* ApplyCap copies the devices, ...
ApplyCapRead(w) ==
    /\ At(w, "apply")
    /\ Step(w, [at |-> "applying", key |-> task[w].key, caps |-> task[w].caps, devs |-> box,
                left |-> DOMAIN box])
    /\ UNCHANGED <<sites, box, cap, made, tasks, raced>>

\* ... then updates one device after the other, oldest first.
ApplyCapNext(w) ==
    /\ At(w, "applying")
    /\ \E d \in task[w].left :
         /\ \A x \in task[w].left : d <= x
         /\ LET devs == task[w].devs
                want == Want(devs, task[w].caps, d) IN
              box' = IF d \in DOMAIN box /\ devs[d].monitored # want
                       THEN [box EXCEPT ![d].monitored = want,
                                        ![d].note = IF want THEN ""
                                                    ELSE IF @ = "Disabled" THEN @ ELSE "licence"]
                       ELSE box
         /\ Step(w, [at |-> "applying", key |-> task[w].key, caps |-> task[w].caps, devs |-> task[w].devs,
                     left |-> task[w].left \ {d}])
    /\ UNCHANGED <<sites, cap, made, tasks, raced>>

ApplyCapEnd(w) ==
    /\ At(w, "applying")
    /\ task[w].left = {}
    /\ Step(w, Idle)
    /\ UNCHANGED <<sites, box, cap, made, tasks, raced>>

-----------------------------------------------------------------------------
InventoryInit ==
    /\ sites \in {{s} : s \in Place}
    /\ box = <<>>
    /\ cap = FreeCap
    /\ task = [w \in Worker |-> Idle]
    /\ made = 0
    /\ tasks = 0
    /\ raced = {}

InventoryNext ==
    \E w \in Worker :
      \/ \E ip \in IP, s \in Place, ping \in BOOLEAN : Probe(w, ip, s, ping)
      \/ Register(w)
      \/ RegisterCount(w)
      \/ RegisterPut(w)
      \/ RegisterPingOnly(w)
      \/ \E d \in 1 .. made : EnableCount(w, d)
      \/ Enable(w)
      \/ \E d \in 1 .. made : Edit(w, d)
      \/ \E d \in 1 .. made : DeleteDevice(w, d)
      \/ \E s \in Place : PutSiteCheck(w, s)
      \/ PutSite(w)
      \/ \E s \in Place : DeleteSiteCheck(w, s)
      \/ DeleteSite(w)
      \/ \E key \in LicenceKey : SetLicense(w, key)
      \/ ApplyCapRead(w)
      \/ ApplyCapNext(w)
      \/ ApplyCapEnd(w)

InventorySpec == InventoryInit /\ [][InventoryNext]_inventoryVars

InventoryTypeOK ==
    /\ sites \subseteq Place
    /\ DOMAIN box \subseteq 1 .. MaxDevices
    /\ \A d \in DOMAIN box : box[d] \in Box
    /\ cap \in {FreeCap, PaidCap}
    /\ DOMAIN task = Worker
    /\ made \in 0 .. MaxDevices
    /\ tasks \in 0 .. MaxTasks
    /\ raced \subseteq {"limit", "map"}

(***************************************************************************)
(* Whatever sequence of requests and licence changes is handled one at a   *)
(* time, no more devices are monitored than the licence allows, no address *)
(* belongs to two devices and no device is in a site that is gone.         *)
(* Requests in flight together can break all three, as every check and the *)
(* store call it is for are two steps; the limit is restored by the next   *)
(* licence that is applied with nothing else in flight.                    *)
(***************************************************************************)
SoundUnlessRaced ==
    /\ \/ "limit" \in raced
       \/ Cardinality(Monitored) <= cap
       \/ \E w \in Worker : task[w].at \in {"apply", "applying"}
    /\ \/ "map" \in raced
       \/ /\ \A d, e \in DOMAIN box : box[d].ip = box[e].ip => d = e
          /\ \A d \in DOMAIN box : box[d].site \in sites

(***************************************************************************)
(* "A rejected key only reports why - the licence in force stays as it     *)
(* was": a request that carried a rejected key stops no device from being  *)
(* monitored.  It does not hold (README).                                  *)
(***************************************************************************)
RejectedKeyOnlyReports ==
    [][\A w \in Worker :
          At(w, "applying") /\ task'[w] # task[w] /\ task[w].key = "rejected"
            => \A d \in Monitored \cap DOMAIN box' : box'[d].monitored]_inventoryVars
=============================================================================
