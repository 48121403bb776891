------------------------------ MODULE Delegates -------------------------------
(***************************************************************************)
(* The multus meta-plugin: an ADD of a sandbox works out the delegates of  *)
(* its pod (PodNets), saves them to a file named after the sandbox, calls  *)
(* them one by one and notes the result in an annotation of the pod; a DEL *)
(* reads the file and calls them in reverse order.  Delegates are other    *)
(* programs: each may fail, and may have done its work all the same.       *)
(*                                                                         *)
(* The runtime calls multus for one sandbox of a pod at a time, gives the  *)
(* pod a new sandbox when it is done with the old one, repeats a DEL that  *)
(* failed, and may repeat one that did not.  Users change the pod and      *)
(* delete it, the API server may not answer, plugins are killed and nodes  *)
(* start again without the network namespaces.                             *)
(***************************************************************************)
EXTENDS PodNets

CONSTANTS
  Sandbox,     \* the sandboxes (container ids) of the pod
  Pods,        \* the forms the pod may have in the API server
  NADs,        \* the NADs of the cluster, by <<namespace, name>>
  PodNs,       \* the namespace of the pod
  IfName,      \* the interface name the runtime passes
  Eth,         \* the interface name by position: eth0, eth1, ...
  BadRequest,  \* a requested address or MAC that cannot be parsed
  Outages,     \* may the API server or kubelet fail to answer?
  DelFails,    \* may a delegate fail a DEL of the runtime?
  Mortal       \* may a plugin be killed and a node start again?

ASSUME DelegatesAssumption ==
  /\ {Outages, DelFails, Mortal} \subseteq BOOLEAN
  /\ None \notin Pods
  /\ \A p \in Pods : p.nets # None => IsList(p.nets.items)

VARIABLES
  pod,       \* the pod in the API server, or None
  status,    \* its network status annotation: the delegates by name, or None
  file,      \* the saved delegates of each sandbox
  netns,     \* the sandboxes whose network namespace exists
  att,       \* what delegates have set up for each sandbox
  told,      \* what the runtime was last told of each sandbox
  call       \* the invocation of multus for each sandbox

vars == <<pod, status, file, netns, att, told, call>>

(* An invocation: where it is, the delegates, which of them is next, was   *)
(* the pod seen, the status so far, did anything fail, was there a network *)
(* namespace, was the file read, is the pod it got still the latest.       *)
Idle == [pc |-> "idle", ds |-> << >>, i |-> 0, client |-> FALSE, st |-> << >>,
         err |-> FALSE, netns |-> FALSE, consumed |-> FALSE, fresh |-> FALSE]

(* The file: absent, or saved with these delegates, or its write was cut   *)
(* short.                                                                  *)
File(is, ds) == [is |-> is, ds |-> ds]
NoFile == File("absent", << >>)
Torn   == File("torn", << >>)

Goto(c, pc) == call' = [call EXCEPT ![c].pc = pc]

Init ==
  /\ pod \in Pods
  /\ status = None
  /\ file = [c \in Sandbox |-> NoFile]
  /\ netns = {}
  /\ att = [c \in Sandbox |-> {}]
  /\ told = [c \in Sandbox |-> "new"]
  /\ call = [c \in Sandbox |-> Idle]

(* What a reader gets from the API server: the pod or not, and some of the *)
(* NADs.  One is left out when its read fails, or kubelet's answer on its  *)
(* devices.                                                                *)
Answers == IF Outages THEN BOOLEAN ELSE {TRUE}
PodRead(up) == IF up THEN pod ELSE None
NADsSeen == IF Outages THEN {Restrict(NADs, S) : S \in SUBSET DOMAIN NADs} ELSE {NADs}

(* The pod is written: whoever has got it before has an old version.       *)
PodWritten == [c \in Sandbox |-> [call[c] EXCEPT !.fresh = FALSE]]

-----------------------------------------------------------------------------
(* Naming, and what is saved: which delegate is the master is not.         *)

GetIfname(d, i) ==
  IF d.ifname # None THEN d.ifname ELSE IF d.master THEN IfName ELSE Eth[i]

Attachment(d, i) == [name |-> d.name, ifname |-> GetIfname(d, i), dev |-> d.dev]

(* Mutant: the master flag goes into the file.                             *)
Saved_Whole(ds) == ds

Saved(ds) == [i \in DOMAIN ds |-> [ds[i] EXCEPT !.master = FALSE]]

(* The file is decoded over the delegates that LoadNetConf has left: where *)
(* one of those is a list, its plugins stay behind a delegate that is      *)
(* none, which is then called as a list, and its version stays with a list *)
(* that has none.                                                          *)
StaticList(i) ==
  /\ Conf.clusterNetwork = None /\ i \in DOMAIN Conf.delegates
  /\ Conf.delegates[i].kind \in {"list", "bare"}

Merged(ds) ==
  [i \in DOMAIN ds |->
     IF ~StaticList(i) THEN ds[i]
     ELSE IF ds[i].kind = "bare" THEN [ds[i] EXCEPT !.kind = Conf.delegates[i].kind]
     ELSE [ds[i] EXCEPT !.list = TRUE]]

(* Mutant: the first delegate read from the file is not the master.        *)
Loaded_NoMaster(ds) == Merged(ds)

Loaded(ds) == FirstIsMaster(Merged(ds))

(* A plugin's configuration that is called as a list cannot be read.       *)
Misread(d) == d.list /\ d.kind = "plugin"

(* A list without a version is written anew, with the version of multus    *)
(* and without the device; so is one LoadNetConf has left behind.          *)
Versioned(ds) ==
  [i \in DOMAIN ds |->
     IF ds[i].kind = "bare" THEN [ds[i] EXCEPT !.kind = "list", !.dev = None]
     ELSE IF Misread(ds[i]) /\ Conf.delegates[i].kind = "bare"
       THEN [ds[i] EXCEPT !.kind = "list", !.dev = None, !.name = Conf.delegates[i].name]
     ELSE ds[i]]

(* An invocation ends and the runtime is told.                             *)
Finish(c, answer) ==
  /\ told' = [told EXCEPT ![c] = answer]
  /\ call' = [call EXCEPT ![c] = Idle]

-----------------------------------------------------------------------------
(* cmdAdd                                                                  *)

(* The runtime creates a sandbox when those before it are stopped.         *)
Alone(c) == \A b \in Sandbox \ {c} : call[b] = Idle

CmdAdd(c) ==
  /\ told[c] = "new" /\ pod # None /\ Alone(c)
  /\ \A b \in Sandbox \ {c} : told[b] \in {"new", "gone"} /\ b \notin netns
  /\ netns' = netns \cup {c}
  /\ told' = [told EXCEPT ![c] = "adding"]
  /\ Goto(c, "addBase")
  /\ UNCHANGED <<pod, status, file, att>>

AddBase(c) ==
  /\ call[c].pc = "addBase"
  /\ \E nads \in NADsSeen :
       LET ds == BaseDelegates(nads, PodNs) IN
       IF ds = Failed
         THEN Finish(c, "failed")
         ELSE /\ call' = [call EXCEPT ![c].pc = "addPod", ![c].ds = ds]
              /\ UNCHANGED told
  /\ UNCHANGED <<pod, status, file, netns, att>>

AddPod(c) ==
  /\ call[c].pc = "addPod"
  /\ \E up \in Answers, nads \in NADsSeen :
       LET got == TryLoadPodDelegates(nads, PodRead(up), call[c].ds) IN
       IF ~got.ok
         THEN Finish(c, "failed")
         ELSE /\ call' = [call EXCEPT ![c].pc = "save", ![c].ds = got.delegates,
                                      ![c].client = got.client]
              /\ UNCHANGED told
  /\ UNCHANGED <<pod, status, file, netns, att>>

SaveDelegates(c) ==
  /\ call[c].pc = "save"
  /\ file' = [file EXCEPT ![c] = File("saved", Saved(call[c].ds))]
  /\ call' = [call EXCEPT ![c].pc = "add", ![c].i = 1]
  /\ UNCHANGED <<pod, status, netns, att, told>>

(* The delegate invocation c is at, and what it is to set up.              *)
Delegate(c) == call[c].ds[call[c].i]
Wanted(c) == Attachment(Delegate(c), call[c].i)

NameTaken(c) == \E a \in att[c] : a.ifname = Wanted(c).ifname

(* delegateAdd succeeds.                                                   *)
DelegateAdd(c) ==
  /\ call[c].pc = "add" /\ call[c].i <= Len(call[c].ds)
  /\ c \in netns /\ ~NameTaken(c) /\ Delegate(c).req # BadRequest
  /\ att' = [att EXCEPT ![c] = @ \cup {Wanted(c)}]
  /\ call' = [call EXCEPT ![c].i = @ + 1, ![c].st = Append(@, Delegate(c).name)]
  /\ UNCHANGED <<pod, status, file, netns, told>>

(* Mutant: the delegate that failed is not deleted.                        *)
DelegateAddFails_NotItself(c) ==
  /\ call[c].pc = "add" /\ call[c].i <= Len(call[c].ds)
  /\ \/ UNCHANGED att
     \/ /\ c \in netns /\ ~NameTaken(c) /\ Delegate(c).req # BadRequest
        /\ att' = [att EXCEPT ![c] = @ \cup {Wanted(c)}]
  /\ call' = [call EXCEPT ![c].pc = "undo", ![c].i = @ - 1]
  /\ UNCHANGED <<pod, status, file, netns, told>>

(* It fails, before or after it has set up anything; the invocation undoes *)
(* what it did, this delegate included.                                    *)
DelegateAddFails(c) ==
  /\ call[c].pc = "add" /\ call[c].i <= Len(call[c].ds)
  /\ \/ UNCHANGED att
     \/ /\ c \in netns /\ ~NameTaken(c) /\ Delegate(c).req # BadRequest
        /\ att' = [att EXCEPT ![c] = @ \cup {Wanted(c)}]
  /\ Goto(c, "undo")
  /\ UNCHANGED <<pod, status, file, netns, told>>

(* LoadNetworkStatus cannot read the result of the delegate just added:    *)
(* nothing is undone.                                                      *)
BadResult(c) ==
  /\ call[c].pc = "add" /\ call[c].i > 1
  /\ call[c].client /\ ~CheckSystemNamespaces(PodNs)
  /\ Finish(c, "failed")
  /\ UNCHANGED <<pod, status, file, netns, att>>

AddsDone(c) ==
  /\ call[c].pc = "add" /\ call[c].i > Len(call[c].ds)
  /\ IF call[c].client /\ ~CheckSystemNamespaces(PodNs)
       THEN /\ Goto(c, "getPod")
            /\ UNCHANGED told
       ELSE Finish(c, IF call[c].client THEN "up" ELSE "blind")
  /\ UNCHANGED <<pod, status, file, netns, att>>

(* SetNetworkStatus gets the pod again and updates it.  When the pod has   *)
(* changed in between, the client returns an empty pod with the conflict,  *)
(* the retry asks for a pod without a name, and the ADD fails.             *)
GetPod(c) ==
  /\ call[c].pc = "getPod"
  /\ \E up \in Answers :
       IF PodRead(up) = None
         THEN Finish(c, "failed")
         ELSE /\ call' = [call EXCEPT ![c].pc = "update", ![c].fresh = TRUE]
              /\ UNCHANGED told
  /\ UNCHANGED <<pod, status, file, netns, att>>

UpdatePodStatus(c) ==
  /\ call[c].pc = "update"
  /\ call[c].fresh
  /\ status' = call[c].st
  /\ told' = [told EXCEPT ![c] = "up"]
  /\ call' = [PodWritten EXCEPT ![c] = Idle]
  /\ UNCHANGED <<pod, file, netns, att>>

UpdateFails(c) ==
  /\ call[c].pc = "update"
  /\ ~call[c].fresh \/ Outages
  /\ Finish(c, "failed")
  /\ UNCHANGED <<pod, status, file, netns, att>>

-----------------------------------------------------------------------------
(* delPlugins: from the last delegate to the first, whatever fails.  What  *)
(* fails while an ADD is undone is left to the DEL of the runtime.         *)

Undone(c) == [att EXCEPT ![c] = @ \ {Wanted(c)}]

DelegateDel(c) ==
  /\ call[c].pc \in {"undo", "del"} /\ call[c].i > 0
  /\ \/ /\ ~Misread(Delegate(c))
        /\ att' = Undone(c)
        /\ call' = [call EXCEPT ![c].i = @ - 1]
     \/ /\ call[c].pc = "undo" \/ DelFails \/ Misread(Delegate(c))
        /\ UNCHANGED att
        /\ call' = [call EXCEPT ![c].i = @ - 1, ![c].err = TRUE]
  /\ UNCHANGED <<pod, status, file, netns, told>>

UndoDone(c) ==
  /\ call[c].pc = "undo" /\ call[c].i = 0
  /\ Finish(c, "failed")
  /\ UNCHANGED <<pod, status, file, netns, att>>

-----------------------------------------------------------------------------
(* cmdDel                                                                  *)

CmdDel(c) ==
  /\ told[c] \in {"up", "blind", "failed", "gone"} /\ call[c] = Idle /\ Alone(c)
  /\ told' = [told EXCEPT ![c] = IF @ = "gone" THEN "gone" ELSE "deleting"]
  /\ call' = [call EXCEPT ![c].pc = "read", ![c].netns = c \in netns]
  /\ UNCHANGED <<pod, status, file, netns, att>>

(* An answer to a DEL: after an error the runtime tries again.             *)
DelAnswer(c) == IF call[c].err THEN "failed" ELSE "gone"

(* Mutant: the last delegate is not deleted.                               *)
DelRead_Short(c) ==
  /\ call[c].pc = "read" /\ file[c].is = "saved"
  /\ LET ds == Versioned(Loaded(file[c].ds)) IN
     call' = [call EXCEPT ![c].pc = "clear", ![c].ds = ds, ![c].i = Len(ds) - 1,
                          ![c].consumed = TRUE]
  /\ UNCHANGED <<pod, status, file, netns, att, told>>

DelRead(c) ==
  /\ call[c].pc = "read" /\ file[c].is = "saved"
  /\ LET ds == Versioned(Loaded(file[c].ds)) IN
     call' = [call EXCEPT ![c].pc = "clear", ![c].ds = ds, ![c].i = Len(ds),
                          ![c].consumed = TRUE]
  /\ UNCHANGED <<pod, status, file, netns, att, told>>

(* A file that cannot be parsed is an error, and is removed.               *)
DelTorn(c) ==
  /\ call[c].pc = "read" /\ file[c].is = "torn"
  /\ file' = [file EXCEPT ![c] = NoFile]
  /\ Finish(c, "failed")
  /\ UNCHANGED <<pod, status, netns, att>>

(* Without a file the delegates are worked out again.                      *)
DelBase(c) ==
  /\ call[c].pc = "read" /\ file[c].is = "absent"
  /\ \E nads \in NADsSeen :
       LET ds == BaseDelegates(nads, PodNs) IN
       IF ds = Failed
         THEN Finish(c, "failed")
         ELSE /\ call' = [call EXCEPT ![c].pc = "readPod", ![c].ds = ds]
              /\ UNCHANGED told
  /\ UNCHANGED <<pod, status, file, netns, att>>

DelPod(c) ==
  /\ call[c].pc = "readPod"
  /\ \E up \in Answers, nads \in NADsSeen :
       LET ds == Versioned(TryLoadPodDelegates(nads, PodRead(up), call[c].ds).delegates) IN
       call' = [call EXCEPT ![c].pc = "clear", ![c].ds = ds, ![c].i = Len(ds)]
  /\ UNCHANGED <<pod, status, file, netns, att, told>>

(* Mutant: the status is cleared although the namespace is gone.           *)
ClearStatus_Always(c) ==
  /\ call[c].pc = "clear"
  /\ \/ UNCHANGED status /\ Goto(c, "del")
     \/ /\ pod # None /\ ~CheckSystemNamespaces(PodNs)
        /\ status' = << >>
        /\ call' = [PodWritten EXCEPT ![c].pc = "del"]
  /\ UNCHANGED <<pod, file, netns, att, told>>

(* The status annotation is cleared, errors are ignored.                   *)
ClearStatus(c) ==
  /\ call[c].pc = "clear"
  /\ \/ UNCHANGED status /\ Goto(c, "del")
     \/ /\ call[c].netns /\ pod # None /\ ~CheckSystemNamespaces(PodNs)
        /\ status' = << >>
        /\ call' = [PodWritten EXCEPT ![c].pc = "del"]
  /\ UNCHANGED <<pod, file, netns, att, told>>

(* The file is removed when cmdDel returns, whatever delPlugins returned.  *)
DelDone(c) ==
  /\ call[c].pc = "del" /\ call[c].i = 0
  /\ file' = IF call[c].consumed THEN [file EXCEPT ![c] = NoFile] ELSE file
  /\ Finish(c, DelAnswer(c))
  /\ UNCHANGED <<pod, status, netns, att>>

-----------------------------------------------------------------------------
(* The plugin is killed: the runtime counts the call as failed.            *)
Crash(c) ==
  /\ Mortal /\ call[c].pc # "idle"
  /\ \/ UNCHANGED file
     \/ /\ call[c].pc = "save"
        /\ file' = [file EXCEPT ![c] = Torn]
  /\ Finish(c, IF told[c] = "gone" THEN "gone" ELSE "failed")
  /\ UNCHANGED <<pod, status, netns, att>>

(* The namespace goes with the sandbox, or when the node starts again.     *)
NetnsGone(c) ==
  /\ c \in netns
  /\ Mortal \/ (told[c] = "gone" /\ call[c] = Idle)
  /\ netns' = netns \ {c}
  /\ UNCHANGED <<pod, status, file, att, told, call>>

(* The pod is changed, or deleted and created again under its name.        *)
PodChanges ==
  /\ pod' \in Pods \cup {None}
  /\ pod' # pod
  /\ status' = IF pod' = None THEN None ELSE status
  /\ call' = PodWritten
  /\ UNCHANGED <<file, netns, att, told>>

AddStep(c) ==
  \/ AddBase(c) \/ AddPod(c) \/ SaveDelegates(c) \/ DelegateAdd(c) \/ AddsDone(c)
  \/ GetPod(c) \/ UpdatePodStatus(c) \/ UpdateFails(c) \/ UndoDone(c)

DelStep(c) ==
  \/ DelRead(c) \/ DelTorn(c) \/ DelBase(c) \/ DelPod(c) \/ ClearStatus(c)
  \/ DelegateDel(c) \/ DelDone(c)

Next ==
  \/ \E c \in Sandbox :
       \/ CmdAdd(c) \/ AddStep(c) \/ DelegateAddFails(c) \/ BadResult(c)
       \/ CmdDel(c) \/ DelStep(c)
       \/ Crash(c) \/ NetnsGone(c)
  \/ PodChanges

Spec == Init /\ [][Next]_vars

(* Calls run on, and the runtime deletes what failed; the lock of a pod is *)
(* fair.                                                                   *)
FairSpec ==
  /\ Spec
  /\ \A c \in Sandbox :
       /\ WF_vars(DelStep(c))
       /\ SF_vars(told[c] = "failed" /\ CmdDel(c))
       /\ <>[][~Crash(c)]_vars

-----------------------------------------------------------------------------
AddPCs == {"addBase", "addPod", "save", "add", "undo", "getPod", "update"}
DelPCs == {"read", "readPod", "clear", "del"}

TypeOK ==
  /\ pod \in Pods \cup {None}
  /\ netns \subseteq Sandbox
  /\ told \in [Sandbox -> {"new", "adding", "up", "blind", "failed", "deleting", "gone"}]
  /\ DOMAIN file = Sandbox /\ DOMAIN att = Sandbox /\ DOMAIN call = Sandbox
  /\ \A c \in Sandbox :
       /\ DOMAIN call[c] = DOMAIN Idle
       /\ call[c].pc \in {"idle"} \cup AddPCs \cup DelPCs
       /\ told[c] = "adding" <=> call[c].pc \in AddPCs
       /\ IsList(call[c].ds) /\ call[c].i \in 0..(Len(call[c].ds) + 1)
       /\ file[c].is \in {"absent", "torn", "saved"} /\ IsList(file[c].ds)
       /\ \A i \in DOMAIN file[c].ds : ~file[c].ds[i].master

(* Whatever a delegate has set up for a sandbox can be found again from    *)
(* the file of the sandbox, by name, interface and device, although the    *)
(* pod may have changed or be gone and the plugin may have been killed.    *)
Recoverable ==
  \A c \in Sandbox : \A a \in att[c] :
    /\ file[c].is = "saved"
    /\ \E i \in DOMAIN file[c].ds : a = Attachment(Loaded(file[c].ds)[i], i)

(* When the runtime is told that a sandbox is gone, no delegate has left   *)
(* anything behind for it.                                                 *)
DelClean == \A c \in Sandbox : told[c] = "gone" => att[c] = {}

(* An ADD that undoes what it did leaves nothing, the work of the delegate *)
(* that failed included.                                                   *)
UndoComplete ==
  \A c \in Sandbox :
    call[c].pc = "undo" /\ call[c].i = 0 /\ ~call[c].err => att[c] = {}

(* The status annotation of a pod that is up lists the networks of its     *)
(* present sandbox, whatever becomes of the sandboxes before it.           *)
StatusTrue ==
  \A c \in Sandbox :
    told[c] = "up" /\ status # None => ToSet(status) = {a.name : a \in att[c]}

(* No device of the pod is given to two of the networks it selects beside  *)
(* its default network.                                                    *)
DevicesDistinct ==
  \A c \in Sandbox : \A a, b \in {a \in att[c] : a.ifname # IfName} :
    a.dev = b.dev /\ a.dev # None => a = b

(* What an ADD that failed has set up goes away, if plugins are not killed *)
(* for ever: the runtime repeats the DEL and waits for its turn.           *)
Cleaned == \A c \in Sandbox : told[c] = "failed" ~> att[c] = {}
=============================================================================
