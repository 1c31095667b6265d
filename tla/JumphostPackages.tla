---------------------------- MODULE JumphostPackages ---------------------------
(***************************************************************************)
(* prepare.sh on a jump host without network: the system's apt and pip     *)
(* configuration is moved to .bak files, replaced by one that points at a  *)
(* local server, and moved back.  The module has the steps one by one; a   *)
(* run of launch.sh may end between any two of them.                       *)
(***************************************************************************)
EXTENDS Naturals, Sequences, SequencesExt

VARIABLES
    found,    \* the files the jump host had when it was set up: "own" or "none"
    conf,     \* what is in each file's place: the host's "own", "ours", or "none"
    bak,      \* what is in its .bak
    steps,    \* the steps of this run still to be made
    cut       \* a run has ended between its first and its last step

packageVars == <<found, conf, bak, steps, cut>>

ListDir == "sources.list.d"
AptConf == "apt.conf"
Sources == "sources.list"
PipConf == "pip.conf"
File == {ListDir, AptConf, Sources, PipConf}

Step(do, f) == [do |-> do, file |-> f]

Deeds == {"need", "hide", "write", "install", "pip", "drop", "back", "restore"}

\* Defect: apt.conf is not moved back.
EnvStepsForgetful ==
    << Step("need", ListDir), Step("hide", ListDir), Step("hide", AptConf),
       Step("write", AptConf), Step("hide", Sources), Step("write", Sources),
       Step("install", ListDir), Step("drop", Sources), Step("back", Sources),
       Step("drop", AptConf), Step("back", ListDir) >>

\* _pre_env_setup
EnvSteps ==
    << Step("need", ListDir), Step("hide", ListDir), Step("hide", AptConf),
       Step("write", AptConf), Step("hide", Sources), Step("write", Sources),
       Step("install", ListDir), Step("drop", Sources), Step("back", Sources),
       Step("drop", AptConf), Step("back", AptConf), Step("back", ListDir) >>

\* _pre_pip_setup
PipSteps ==
    << Step("hide", PipConf), Step("need", PipConf), Step("write", PipConf),
       Step("pip", PipConf), Step("restore", PipConf) >>

PackagesInit ==
    /\ found \in {f \in [File -> {"own", "none"}] : f[ListDir] = "own"}
    /\ conf = found
    /\ bak = [f \in File |-> "none"]
    /\ steps = <<>>
    /\ cut = FALSE

Deed == Head(steps).do
At == Head(steps).file

Moved(to, from) == to' = [to EXCEPT ![At] = from[At]] /\ from' = [from EXCEPT ![At] = "none"]

PackageStep ==
    /\ steps # <<>>
    /\ steps' = Tail(steps)
    /\ CASE Deed = "hide" /\ conf[At] # "none" -> Moved(bak, conf)
         [] Deed = "write" -> conf' = [conf EXCEPT ![At] = "ours"] /\ UNCHANGED bak
         [] Deed = "drop" -> conf' = [conf EXCEPT ![At] = "none"] /\ UNCHANGED bak
         [] Deed = "back" /\ bak[At] # "none" -> Moved(conf, bak)
         [] Deed = "restore" -> Moved(conf, bak)
         [] OTHER -> UNCHANGED <<conf, bak>>
    /\ UNCHANGED <<found, cut>>

\* "exit 1": there is no package file, or docker has another storage driver.
MayExit == steps # <<>> /\ Deed \in {"need", "install"}

\* The run ends here, by itself or killed.
PackagesEnd ==
    /\ steps' = <<>>
    /\ cut' = (cut \/ steps \notin {<<>>, EnvSteps \o PipSteps, PipSteps})
    /\ UNCHANGED <<found, conf, bak>>

-----------------------------------------------------------------------------

PackagesTypeOK ==
    /\ found \in [File -> {"own", "none"}]
    /\ conf \in [File -> {"own", "ours", "none"}]
    /\ bak \in [File -> {"own", "ours", "none"}]
    /\ steps \in Seq([do : Deeds, file : File])
    /\ cut \in BOOLEAN

\* sources.list.d is in its place or next to it.
ListKept == {conf[ListDir], bak[ListDir]} = {"own", "none"}
=============================================================================
