------------------------------ MODULE Settings ------------------------------
(***************************************************************************)
(* Settings of infrastructure/config/settings.py: which environments are   *)
(* accepted, what follows from the optional fields, and what create_app()  *)
(* and the lifespan (main.py) build with it.  A duration is a number.      *)
(***************************************************************************)
EXTENDS Integers

CONSTANTS None,  \* an optional field that is not set
          Cpus   \* what os.cpu_count() answers

ASSUME SettingsAssumption == None \notin Int /\ Cpus \in {None} \cup (Nat \ {0})

(* The fields, by the validator that looks at them. *)
Caps == {"max_pages", "max_extracted_chars"}
Timeouts == {"queue_timeout_seconds", "extraction_timeout_seconds"}
Capacities == {"workers", "max_concurrent_extractions", "max_inflight_requests"}
Numbers == {"port", "max_upload_bytes", "min_text_length", "metrics_cache_ttl_seconds"}
           \cup Caps \cup Timeouts

LogLevels == {"CRITICAL", "ERROR", "WARNING", "INFO", "DEBUG"}
Upper == [l \in LogLevels \cup {"info", "loud"} |-> IF l = "info" THEN "INFO" ELSE l]

(* What the environment may hold, before it is validated. *)
Environment(s) ==
    /\ \A f \in Numbers : s[f] \in Int
    /\ \A f \in Capacities : s[f] \in Int \cup {None}
    /\ s.log_level \in DOMAIN Upper

-----------------------------------------------------------------------------
validate_port(s) == s.port \in 1..65535
validate_max_upload_bytes(s) == s.max_upload_bytes > 0
validate_min_text_length(s) == s.min_text_length >= 0
validate_output_caps(s) == \A f \in Caps : s[f] > 0
Bugvalidate_workers(s) == \A f \in Capacities : s[f] # None => s[f] >= 0  \* a wrong version
validate_workers(s) == \A f \in Capacities : s[f] # None => s[f] >= 1
validate_metrics_cache_ttl_seconds(s) == s.metrics_cache_ttl_seconds >= 0
validate_timeout(s) == \A f \in Timeouts : s[f] > 0
validate_log_level(s) == Upper[s.log_level] \in LogLevels

Accepted(s) ==
    /\ validate_port(s) /\ validate_max_upload_bytes(s) /\ validate_min_text_length(s)
    /\ validate_output_caps(s) /\ validate_workers(s) /\ validate_timeout(s)
    /\ validate_metrics_cache_ttl_seconds(s) /\ validate_log_level(s)

-----------------------------------------------------------------------------
(* One per CPU unless it is set; a CPU count that is not known is one. *)
cpu_count == IF Cpus = None THEN 1 ELSE Cpus
effective_workers(s) == IF s.workers # None THEN s.workers ELSE cpu_count

(* Python's "or": a capacity that is not set, or zero, gives way. *)
Or(n, default) == IF n \in {None, 0} THEN default ELSE n

effective_max_concurrent_extractions(s) ==
    Or(s.max_concurrent_extractions, effective_workers(s))
effective_max_inflight_requests(s) ==
    Or(s.max_inflight_requests, effective_max_concurrent_extractions(s))

(* The application: slots of the admission gate, buffers, route threads    *)
(* and permits of the pool's gate have one capacity, the workers and the   *)
(* door theirs; warm-up occupies no more workers than there are permits.   *)
Wiring(s) ==
    LET n == effective_max_concurrent_extractions(s)
        w == effective_workers(s)
    IN  [slots |-> n, buffers |-> n, threads |-> n, permits |-> n, workers |-> w,
         door |-> effective_max_inflight_requests(s), warm |-> IF w < n THEN w ELSE n,
         ttl |-> s.metrics_cache_ttl_seconds > 0, level |-> Upper[s.log_level]]

-----------------------------------------------------------------------------
(* What the application is built with meets what its parts assume: no part *)
(* has a capacity below one (the gates and the executors would refuse it   *)
(* at start-up), nor the reader a budget or logging a level it cannot      *)
(* take.                                                                   *)
PartsCanBeBuilt(s) ==
    LET w == Wiring(s)
    IN  /\ \A part \in {"slots", "buffers", "threads", "permits", "workers", "door", "warm"} :
              w[part] \in Nat \ {0}
        /\ s.max_upload_bytes \in Nat /\ w.level \in LogLevels
=============================================================================
