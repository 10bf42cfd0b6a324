------------------------------ MODULE AutoPatch ------------------------------
(***************************************************************************)
(* The life cycle of the daemon: lifecycleCmd (common/cliapp/lifecycle.go) *)
(* sets AutoPatch (autopatch.go) up, starts it, waits for its context and  *)
(* stops it.  AutoPatch runs the synchronizer's ticker loop, of which only *)
(* the fact that it runs matters here (see Synchronizer), and the storage  *)
(* parser's.                                                               *)
(*                                                                         *)
(* lifecycleCmd drops the cancel functions it makes, so its context ends   *)
(* only with the host's.  main passes context.Background(), which never    *)
(* ends: there a signal kills the process.                                 *)
(***************************************************************************)
EXTENDS StorageParser

VARIABLES
    hostContext,     \* "background", "live" or "done"
    daemon,          \* where lifecycleCmd is
    synchronizing,   \* the synchronizer's loop runs
    stopError        \* Stop returned an error

daemonVars == <<hostContext, daemon, synchronizing, stopError>>
vars == <<daemonVars, parserVars>>

Init ==
    /\ ParserInit
    /\ hostContext \in {"background", "live"}
    /\ daemon = "setup" /\ synchronizing = FALSE /\ stopError = FALSE

\* The clients, the traced transaction, the synchronizer and the parser are there.
NewAutoPatch ==
    /\ daemon = "setup" /\ daemon' = "starting"
    /\ UNCHANGED <<hostContext, synchronizing, stopError, parserVars>>

\* One of them is not: failed to setup.
NewAutoPatchFails ==
    /\ daemon = "setup" /\ daemon' = "exited"
    /\ UNCHANGED <<hostContext, synchronizing, stopError, parserVars>>

\* The synchronizer's Start, and the parser's.
Start ==
    /\ daemon = "starting"
    /\ IF synchronizing
       THEN ParserStart /\ daemon' = "running" /\ UNCHANGED <<hostContext, synchronizing, stopError>>
       ELSE synchronizing' = TRUE /\ UNCHANGED <<hostContext, daemon, stopError, parserVars>>

HostCancels ==
    /\ hostContext = "live" /\ hostContext' = "done"
    /\ UNCHANGED <<daemon, synchronizing, stopError, parserVars>>

\* <-appCtx.Done(); Close of the synchronizer has nothing to do.
StopBegins ==
    /\ daemon = "running" /\ hostContext = "done"
    /\ daemon' = "stopping"
    /\ UNCHANGED <<hostContext, synchronizing, stopError, parserVars>>

\* Close of the parser waits for its loop and returns the error that ended it;
\* the flag stopped is not set.
StorageParserClose ==
    /\ daemon = "stopping" /\ parser = "failed"
    /\ daemon' = "stopped" /\ stopError' = TRUE
    /\ UNCHANGED <<hostContext, synchronizing, parserVars>>

\* lifecycleCmd returns, or a signal meets the default handler.
Exit ==
    /\ daemon = "stopped"
    /\ daemon' = "exited" /\ synchronizing' = FALSE /\ parser' = "off" /\ inspected' = None
    /\ UNCHANGED <<hostContext, stopError, blockHeaders, latestBlockHeader, history>>

Killed ==
    /\ daemon # "exited"
    /\ daemon' = "exited" /\ synchronizing' = FALSE /\ parser' = "off" /\ inspected' = None
    /\ UNCHANGED <<hostContext, stopError, blockHeaders, latestBlockHeader, history>>

Next ==
    \/ NewAutoPatch \/ NewAutoPatchFails \/ Start
    \/ HostCancels \/ StopBegins \/ StorageParserClose \/ Exit \/ Killed
    \/ ParserNext /\ UNCHANGED daemonVars
    \/ StoreBlockHeaders /\ UNCHANGED daemonVars

Spec == Init /\ [][Next]_vars

-----------------------------------------------------------------------------
(* Properties *)

\* The state is what the code's types allow.
TypeOK ==
    /\ ParserTypeOK
    /\ hostContext \in {"background", "live", "done"}
    /\ daemon \in {"setup", "starting", "running", "stopping", "stopped", "exited"}
    /\ synchronizing \in BOOLEAN /\ stopError \in BOOLEAN

\* The storage parser never inspects a header beyond the BlockSize-th above
\* StartHeight, nor the one at StartHeight: the cursor that storage.go:60-63
\* reads is never moved, so once there are BlockSize headers every tick inspects
\* the same one, whatever is stored later.
CursorStands ==
    \A h \in history :
        /\ h > StartHeight
        /\ Cardinality({g \in blockHeaders : StartHeight < g /\ g < h}) < BlockSize
=============================================================================
