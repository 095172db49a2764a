---------------------------- MODULE RemoteBackup ----------------------------
(***************************************************************************)
(* A goback process running a remote profile into the directory that the   *)
(* processes of LocalBackup use: runRemoteProfile and backupRemote of      *)
(* app/goback/goback.go, with the ssh client of lib/ssh/ssh.go.            *)
(*                                                                         *)
(* runRemoteProfile passes the destination directory itself as destZip, so *)
(* zip.New fails and delZipAndErr is called on the directory.  What follows*)
(* a successful zip.New is never reached and is left out.                  *)
(***************************************************************************)
EXTENDS LocalBackup

CONSTANTS
    AuthTypes,     \* the values of ssh.type among the remote profiles
    RemoteFaults   \* the operations of the remote run that may fail

RemoteFaultKinds == {"stat", "mkdir", "auth", "knownhosts", "dial", "remove", "crash"}

ASSUME RemoteAssumption ==
    /\ AuthTypes \subseteq {"password", "sshkey", "sshagent"}
    /\ RemoteFaults \subseteq RemoteFaultKinds

VARIABLES
    rpc,      \* where the process is
    auth,     \* cfg.Auth of the run
    agent,    \* whether agentConn is open
    conn,     \* whether the ssh connection is
    rresult   \* how the last remote run ended

remoteVars == <<rpc, auth, agent, conn, rresult>>
sharedVars == <<clock, files, good, pc, prof, zip, handle, left, todel, result>>
remoteRunVars == <<vars, remoteVars>>

\* The types, and which connections are open where: the ssh connection from Connect
\* to Disconnect and nowhere else; the one to the agent from New on, if the profile
\* wants it, until Disconnect, or where New or Connect fails until the process ends.
RemoteTypeOK ==
    /\ rpc \in {"idle", "stat", "mkdir", "restat", "new", "connect", "zip", "delzip"}
    /\ auth \in AuthTypes
    /\ agent \in BOOLEAN /\ conn \in BOOLEAN
    /\ conn <=> rpc = "zip"
    /\ rpc \in {"connect", "zip"} => (agent <=> auth = "sshagent")
    /\ agent => /\ auth = "sshagent"
                /\ \/ rpc \in {"connect", "zip", "delzip"}
                   \/ rpc = "idle" /\ rresult = "failed"
    /\ rresult \in {"none", "ok", "failed", "crashed"}

-----------------------------------------------------------------------------
RemoteMayFail(k) == k \in RemoteFaults

RemoteGoto(l) == rpc' = l /\ UNCHANGED rresult
RemoteReturn(r) == rpc' = "idle" /\ rresult' = r

RemoteInit ==
    /\ Init
    /\ rpc = "idle" /\ auth \in AuthTypes
    /\ agent = FALSE /\ conn = FALSE
    /\ rresult = "none"

\* A new process starts with the profile.
RemoteBegin ==
    /\ rpc = "idle"
    /\ rpc' = "stat" /\ rresult' = "none"
    /\ auth' \in AuthTypes
    /\ agent' = FALSE
    /\ UNCHANGED <<sharedVars, dest, conn>>

\* prepareDestination, as in LocalBackup.
RemoteStat ==
    /\ rpc = "stat"
    /\ \/ dest = "dir" /\ RemoteGoto("new")
       \/ dest = "absent" /\ RemoteGoto("mkdir")
       \/ (dest = "file" \/ RemoteMayFail("stat")) /\ RemoteReturn("failed")
    /\ UNCHANGED <<sharedVars, dest, auth, agent, conn>>

RemoteMkdir ==
    /\ rpc = "mkdir"
    /\ \/ dest = "absent" /\ dest' = "dir" /\ RemoteGoto("restat")
       \/ /\ dest # "absent" \/ RemoteMayFail("mkdir")
          /\ RemoteReturn("failed")
          /\ UNCHANGED dest
    /\ UNCHANGED <<sharedVars, auth, agent, conn>>

RemoteRestat ==
    /\ rpc = "restat"
    /\ \/ dest = "dir" /\ RemoteGoto("new")
       \/ (dest # "dir" \/ RemoteMayFail("stat")) /\ RemoteReturn("failed")
    /\ UNCHANGED <<sharedVars, dest, auth, agent, conn>>

\* ssh.New: the credentials (readKey, sshAgentSigners), then known_hosts.  The
\* connection to the agent is open from here on, also where New fails after it.
SshNew ==
    /\ rpc = "new"
    /\ \/ RemoteMayFail("auth") /\ RemoteGoto("delzip") /\ agent' \in {FALSE, auth = "sshagent"}
       \/ /\ agent' = (auth = "sshagent")
          /\ RemoteGoto("connect") \/ (RemoteMayFail("knownhosts") /\ RemoteGoto("delzip"))
    /\ UNCHANGED <<sharedVars, dest, auth, conn>>

\* Client.Connect; Disconnect is deferred only once it has succeeded.
SshConnect ==
    /\ rpc = "connect"
    /\ \/ conn' = TRUE /\ RemoteGoto("zip")
       \/ RemoteMayFail("dial") /\ RemoteGoto("delzip") /\ UNCHANGED conn
    /\ UNCHANGED <<sharedVars, dest, auth, agent>>

\* Client.Disconnect.  Mutant: the ssh connection stays open.
Disconnect_AgentOnly == agent' = FALSE /\ UNCHANGED conn
Disconnect == agent' = FALSE /\ conn' = FALSE

\* zip.New of the destination directory fails: its name has not the suffix
\* .zip, or it is a directory, which cannot be opened for writing.
ZipNew ==
    /\ rpc = "zip"
    /\ Disconnect
    /\ RemoteGoto("delzip")
    /\ UNCHANGED <<sharedVars, dest, auth>>

\* Mutant: os.RemoveAll.
RemoteDelZip_All ==
    /\ rpc = "delzip"
    /\ dest' = "absent" /\ files' = {} /\ good' = {}
    /\ RemoteReturn("failed")
    /\ UNCHANGED <<clock, pc, prof, zip, handle, left, todel, result, auth, agent, conn>>

\* Mutant: the error of os.Remove is retried for ever.
RemoteDelZip_Retries ==
    /\ rpc = "delzip"
    /\ IF files # {} THEN RemoteGoto("delzip") ELSE RemoteReturn("failed")
    /\ UNCHANGED <<sharedVars, dest, auth, agent, conn>>

\* delZipAndErr of the destination directory: os.Remove takes an empty one away.
RemoteDelZip ==
    /\ rpc = "delzip"
    /\ \/ dest = "dir" /\ files = {} /\ dest' = "absent"
       \/ (dest = "absent" \/ files # {} \/ RemoteMayFail("remove")) /\ UNCHANGED dest
    /\ RemoteReturn("failed")
    /\ UNCHANGED <<sharedVars, auth, agent, conn>>

\* The process is killed: its connections are closed.
RemoteCrash ==
    /\ RemoteMayFail("crash")
    /\ rpc # "idle"
    /\ RemoteReturn("crashed")
    /\ agent' = FALSE /\ conn' = FALSE
    /\ UNCHANGED <<sharedVars, dest, auth>>

RemoteStep == RemoteStat \/ RemoteMkdir \/ RemoteRestat \/ SshNew \/ SshConnect \/ ZipNew
              \/ RemoteDelZip

RemoteNext ==
    \/ Next /\ UNCHANGED remoteVars
    \/ RemoteBegin
    \/ RemoteStep
    \/ RemoteCrash

RemoteSpec == RemoteInit /\ [][RemoteNext]_remoteRunVars

\* A remote run that has begun goes on.
RemoteFairSpec == RemoteSpec /\ WF_remoteRunVars(RemoteStep)

-----------------------------------------------------------------------------
\* Whatever fails in a remote run, and however local runs interleave with it,
\* it ends.
RemoteEnds == rpc # "idle" ~> rpc = "idle"

\* "opens an ssh connection to a target and runs the backup there, storing
\* content locally": where nothing fails, a remote run succeeds.
RemoteSucceeds == rpc # "idle" ~> rresult = "ok"
=============================================================================
