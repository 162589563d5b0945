--------------------------- MODULE SettingsReload --------------------------
(***************************************************************************)
(* The SIGHUP reload (watch_sighup and Reloader of src/src/cli/settings.rs,*)
(* publish_and_reconcile of src/src/processor/reconcile.rs).               *)
(*                                                                         *)
(* A config file is whether dry-run is on after the merge with the flags,  *)
(* and a version that stands for everything else.  A file that does not    *)
(* load or validate is refused where one that turns dry-run on is, with    *)
(* the same effect: the second stands for both.                            *)
(***************************************************************************)
EXTENDS Node

CONSTANT StartDryRun        \* whether the daemon is started with dry-run

ASSUME StartDryRunAssumption == StartDryRun \in BOOLEAN

VARIABLES
    file,           \* the config file on disk
    hangups,        \* the one slot of the SIGHUP channel
    reloader,       \* the step of watch_sighup
    loaded,         \* the settings merged from the file as it was read
    current,        \* Reloader::current
    requester       \* whether the publication found a pass requester

settings == <<file, hangups, reloader, loaded, current, requester>>

ConfigFile == [dryRun : BOOLEAN, version : Nat]

SettingsInit ==
    /\ file = [dryRun |-> StartDryRun, version |-> 0]
    /\ loaded = file /\ current = file
    /\ hangups = FALSE /\ reloader = "idle" /\ requester = FALSE

----------------------------------------------------------------------------
(* The administrator. *)

\* A SIGHUP after an edit.  One that finds the slot taken is coalesced with the
\* one in it.
Hangup ==
    /\ Input
    /\ \E dryRun \in BOOLEAN : file' = [dryRun |-> dryRun, version |-> inputs']
    /\ hangups' = TRUE
    /\ UNCHANGED <<reloader, loaded, current, requester>>
    /\ UNCHANGED <<up, applied, wiped, inspected, clock, engine, generation, stage,
                   cancelled>>
    /\ UNCHANGED obligations

----------------------------------------------------------------------------
(* watch_sighup. *)

TakeHangup ==
    /\ reloader = "idle" /\ hangups /\ ~cancelled
    /\ hangups' = FALSE
    /\ reloader' = "loading"
    /\ UNCHANGED <<file, loaded, current, requester>>
    /\ UNCHANGED node
    /\ UNCHANGED obligations

\* reload refuses to turn dry-run on in a running daemon.
Refused(next) == next.dryRun /\ ~current.dryRun

\* load_file, merge and the checks; on a refusal nothing is applied.
LoadFile ==
    /\ reloader = "loading"
    /\ IF Refused(file)
       THEN reloader' = "idle" /\ UNCHANGED loaded
       ELSE reloader' = "publishing" /\ loaded' = file
    /\ UNCHANGED <<file, hangups, current, requester>>
    /\ UNCHANGED node
    /\ UNCHANGED obligations

\* Under the processor's lock: the generation, and the requester to hand it to.
Publish ==
    /\ reloader = "publishing"
    /\ generation' = generation + 1
    /\ requester' = Installed
    /\ reloader' = "requesting"
    /\ UNCHANGED <<file, hangups, loaded, current>>
    /\ UNCHANGED <<up, applied, wiped, inspected, clock, engine, stage, cancelled, inputs>>
    /\ UNCHANGED obligations

\* Fault: signals that came during the reload are taken to be answered by it.
FaultyRequestPass ==
    /\ reloader = "requesting"
    /\ IF requester THEN Request ELSE UNCHANGED obligations
    /\ current' = loaded
    /\ reloader' = "idle" /\ requester' = FALSE /\ hangups' = FALSE
    /\ UNCHANGED <<file, loaded>>
    /\ UNCHANGED node

RequestPass ==
    /\ reloader = "requesting"
    /\ IF requester THEN Request ELSE UNCHANGED obligations
    /\ current' = loaded
    /\ reloader' = "idle" /\ requester' = FALSE
    /\ UNCHANGED <<file, hangups, loaded>>
    /\ UNCHANGED node

----------------------------------------------------------------------------

ReloaderStep == TakeHangup \/ LoadFile \/ Publish \/ RequestPass

\* A publication whose request is still to be made.
ReloaderOwes == reloader = "requesting" /\ requester

----------------------------------------------------------------------------
(* Properties. *)

\* A SIGHUP is never lost: while the reloader waits with an empty slot, the file
\* that the last SIGHUP announced is in force unless it was refused, whichever
\* step of a reload the edits and the signals fell into (watch_sighup's one-slot
\* channel, reload).
HangupHonoured ==
    (reloader = "idle" /\ ~hangups) => current = file \/ Refused(file)

=============================================================================
