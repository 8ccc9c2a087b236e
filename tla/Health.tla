-------------------------------- MODULE Health --------------------------------
(***************************************************************************)
(* health.evaluate and health.output_stalled: how the metrics of one       *)
(* station become the problems of its record.                              *)
(*                                                                         *)
(* A metric the collector could not read is None.  Every check that only   *)
(* compares one metric with its threshold is an entry of PlainProblems,    *)
(* and m.wrong is the set of those whose comparison comes out true.        *)
(***************************************************************************)
EXTENDS Integers

CONSTANTS
    RestartGrace,     \* capture_restart_grace_s + capture_wait_seconds
    Fresh,            \* output_fresh_error_s
    ActiveWindow,     \* capture_active_window_s
    DetectionGrace,   \* detection_grace_s
    Disabled          \* disabled_checks

None == -1

\* The problems that rest on one comparison each, with their levels.
PlainProblems ==
    {<<"platepar_mismatch", "error">>,     <<"backend_fallback", "degraded">>,
     <<"config_fov_mismatch", "degraded">>, <<"log_fatal", "error">>,
     <<"log_warning", "degraded">>,        <<"watchdog", "degraded">>,
     <<"disk_low", "error">>,              <<"disk_low", "degraded">>,
     <<"upload_backlog", "degraded">>,     <<"clock_unsynced", "degraded">>,
     <<"clock_uncertainty", "degraded">>,  <<"dropped_frames", "degraded">>,
     <<"dropped_frames_live", "error">>}

-----------------------------------------------------------------------------

\* _resolve_expected: sun and mode, else the tag of the newest frame, else
\* whether the session directory was written to of late.
ResolveExpected(m) ==
    CASE m.expected_output # "unknown" -> m.expected_output
      [] m.expected_output = "unknown" /\ m.frame_mode = "night" -> "ff"
      [] m.expected_output = "unknown" /\ m.frame_mode = "day"   -> "frames"
      [] OTHER -> IF m.session_age # None /\ m.session_age <= ActiveWindow
                  THEN "ff" ELSE "idle"

\* Mutant: a restarted capture gets no time to settle.
NeverSettling(m) == FALSE

\* The grace of a capture that has just (re)started.
Settling(m) == m.capture_age # None /\ m.capture_age < RestartGrace

\* The age of the newest output of the kind expected now.
OutputAge(m) ==
    CASE ResolveExpected(m) = "ff"     -> m.fits_age
      [] ResolveExpected(m) = "frames" -> m.frame_age
      [] OTHER                         -> None

\* How long output has been expected, as far as the metrics can tell.
Elapsed(m) == IF m.session_age # None THEN m.session_age ELSE m.capture_age

\* Mutant: output that never came is not a stall.
StaleOnly(m) ==
    /\ ~Settling(m)
    /\ OutputAge(m) # None /\ OutputAge(m) >= Fresh

\* output_stalled: the output is stale, or none ever came.  The loop pings the
\* camera of a station for which this holds.
OutputStalled(m) ==
    /\ ~Settling(m)
    /\ ResolveExpected(m) \in {"ff", "frames"}
    /\ IF OutputAge(m) # None THEN OutputAge(m) >= Fresh
       ELSE Elapsed(m) # None /\ Elapsed(m) >= Fresh

\* The capture_stalled check of evaluate: only output that went stale.
CaptureStalled(m) ==
    OutputAge(m) # None /\ OutputAge(m) >= Fresh /\ ~Settling(m)

\* The detection_stalled check: FF files, and nothing detected in them.
DetectionStalled(m) ==
    /\ ResolveExpected(m) = "ff" /\ m.fits_age # None
    /\ m.session_age # None /\ m.session_age > DetectionGrace
    /\ ~m.detected

-----------------------------------------------------------------------------

When(condition, key, level) == IF condition THEN {<<key, level>>} ELSE {}

\* Mutant: a directory that cannot be read no longer ends the evaluation.
NoEarlyReturn(m) ==
    LET duplicate == When(m.instances > 1, "capture_duplicate", "error")
    IN  CASE m.camera_standby -> {<<"camera_unreachable", "error">>}
          [] ~m.camera_standby /\ ~m.capture_alive ->
               duplicate \cup {<<"capture_down", "error">>}
          [] OTHER ->
               duplicate
               \cup When(~m.data_dir_readable, "data_unreadable", "degraded")
               \cup When(CaptureStalled(m), "capture_stalled", "error")
               \cup When(DetectionStalled(m), "detection_stalled", "error")
               \cup m.wrong

\* evaluate's early returns: a root cause leaves out what follows from it.
Problems(m) ==
    LET duplicate == When(m.instances > 1, "capture_duplicate", "error")
    IN  CASE m.camera_standby -> {<<"camera_unreachable", "error">>}
          [] ~m.camera_standby /\ ~m.capture_alive ->
               duplicate \cup {<<"capture_down", "error">>}
          [] ~m.camera_standby /\ m.capture_alive /\ ~m.data_dir_readable ->
               duplicate \cup {<<"data_unreadable", "degraded">>}
          [] OTHER ->
               duplicate
               \cup When(CaptureStalled(m), "capture_stalled", "error")
               \cup When(DetectionStalled(m), "detection_stalled", "error")
               \cup m.wrong

\* flag() drops what is listed in disabled_checks.
Flagged(m) == {f \in Problems(m) : f[1] \notin Disabled}

Keys(flags) == {f[1] : f \in flags}

=============================================================================
