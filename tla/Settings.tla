------------------------------ MODULE Settings -------------------------------
(***************************************************************************)
(* The settings of GlobalData and the log.  zeromq_set applies its flags    *)
(* one after the other (ApplyFlags), each under m_settingsMutex; between    *)
(* two of them other threads may read the settings or call zeromq_set, and  *)
(* ToggleIPV6Support may throw.  zeromq_set_logging_template replaces the   *)
(* log sink, and AddLogEntry writes entries into it, both under             *)
(* m_loggingLock.                                                           *)
(***************************************************************************)
EXTENDS Integers, Sequences, SequencesExt, FiniteSets

CONSTANTS
  Setters,    \* the threads that call zeromq_set
  NaN, Infinity,
  Flags,      \* arguments of zeromq_set: tenths, NaN or Infinity
  MaxInt,     \* the largest value of the C++ type int
  Templates,  \* arguments of zeromq_set_logging_template
  MaxSets     \* bound on the number of calls that change settings

DEFAULT              == 1
DEBUG                == 2
IPV6                 == 4
NO_RECV_BUSY_WAITING == 8
LOGGING              == 16

RESERVED_KEYS == {"direction", "json", "str", "ts"}
IDENTITY_KEY  == "remote identity"

\* keys: those of the object; ok: is the text a JSON object?
DEFAULT_TEMPLATE == [ok |-> TRUE, keys |-> {}]

ASSUME SettingsAssumption ==
  /\ Flags \ {NaN, Infinity} \subseteq Int
  /\ MaxInt \in Nat /\ MaxSets \in Nat
  /\ \A t \in Templates : t.ok \in BOOLEAN /\ IsFiniteSet(t.keys)

VARIABLES
  settings,  \* m_debugging, m_busyWaiting, m_logging, and IPV6 of the sockets
  todo,      \* todo[s]: the assignments zeromq_set has still to make in thread s
  period,    \* history variable: the settings when no zeromq_set was running
             \* last, the flags accepted since then, and whether one failed
  sink,      \* the template of m_loggingSink
  log,       \* the lines of the log file
  sets       \* the number of calls that changed settings

settingsVars == <<settings, todo, period, sink, log, sets>>

Marker(t) == [kind |-> "marker", template |-> t, keys |-> {}, msg |-> 0, torn |-> FALSE]

\* only busy waiting is on
Defaults == [f \in {"debugging", "busyWaiting", "logging", "ipv6"} |-> f = "busyWaiting"]

SettingsInit ==
  /\ settings = Defaults
  /\ todo = [s \in Setters |-> <<>>]
  /\ period = [old |-> settings, vals |-> {}, failed |-> FALSE]
  /\ sink = DEFAULT_TEMPLATE /\ log = <<Marker(DEFAULT_TEMPLATE)>>  \* InitLogging
  /\ sets = 0
-----------------------------------------------------------------------------
(* zeromq_set *)

Value(n) == [code |-> "0", val |-> n]
Error(code) == [code |-> code, val |-> 0]

\* tenths, truncated towards zero; out of range before the truncation
lockToIntegerRange(v) ==
  IF v \in {NaN, Infinity} THEN Error("kDoesNotSupportNaNorINF")
  ELSE IF v > 10 * MaxInt \/ v < -10 * (MaxInt + 1) THEN Error("kParameterOutOfRange")
  ELSE Value(IF v >= 0 THEN v \div 10 ELSE -((-v) \div 10))

IsSet(val, bit) == (val \div bit) % 2 = 1

\* the assignments for each flag, in the order of ApplyFlags
Assign(f, b) == [flag |-> f, to |-> b]

Assignments(val) ==
  LET if(bit, seq) == IF IsSet(val, bit) THEN seq ELSE <<>>
  IN  if(DEFAULT, <<Assign("debugging", FALSE), Assign("busyWaiting", TRUE),
                    Assign("logging", FALSE), Assign("ipv6", FALSE)>>)
      \o if(DEBUG, <<Assign("debugging", TRUE)>>)
      \o if(IPV6, <<Assign("ipv6", TRUE)>>)
      \o if(NO_RECV_BUSY_WAITING, <<Assign("busyWaiting", FALSE)>>)
      \o if(LOGGING, <<Assign("logging", TRUE)>>)

Plan(code, val, seq) == [code |-> code, val |-> val, todo |-> seq]

\* mutant: the defaults are applied last
ApplyFlagsDefaultLast(v) ==
  LET int == lockToIntegerRange(v)
      all == Assignments(int.val)
      n   == IF IsSet(int.val, DEFAULT) THEN 4 ELSE 0
  IN  IF int.code # "0" THEN Plan(int.code, 0, <<>>)
      ELSE IF int.val <= 0 \/ all = <<>> THEN Plan("UNKNOWN_SET_FLAG", 0, <<>>)
      ELSE Plan("0", int.val, SubSeq(all, n + 1, Len(all)) \o SubSeq(all, 1, n))

\* the checks of ApplyFlags, and the assignments it then makes
ApplyFlags(v) ==
  LET int == lockToIntegerRange(v)
      all == Assignments(int.val)
  IN  IF int.code # "0" THEN Plan(int.code, 0, <<>>)
      ELSE IF int.val <= 0 \/ all = <<>> THEN Plan("UNKNOWN_SET_FLAG", 0, <<>>)
      ELSE Plan("0", int.val, all)

\* no zeromq_set is running
Quiet == \A s \in Setters : todo[s] = <<>>

zeromq_set(s, v) ==
  /\ todo[s] = <<>> /\ sets < MaxSets
  /\ sets' = sets + 1
  /\ LET plan     == ApplyFlags(v)
         accepted == IF plan.code = "0" THEN {plan.val} ELSE {}
     IN  /\ todo' = [todo EXCEPT ![s] = plan.todo]
         /\ period' = IF Quiet THEN [old |-> settings, vals |-> accepted, failed |-> FALSE]
                      ELSE [period EXCEPT !.vals = @ \cup accepted]
  /\ UNCHANGED <<settings, sink, log>>

\* SetDebugFlag, SetRecvBusyWaitingFlag, SetLoggingFlag or ToggleIPV6Support
SetFlag(s) ==
  /\ todo[s] # <<>>
  /\ settings' = [settings EXCEPT ![Head(todo[s]).flag] = Head(todo[s]).to]
  /\ todo' = [todo EXCEPT ![s] = Tail(@)]
  /\ UNCHANGED <<period, sink, log, sets>>

\* a socket refuses the option: the assignments after it are not made
ToggleIPV6Fails(s) ==
  /\ todo[s] # <<>> /\ Head(todo[s]).flag = "ipv6"
  /\ todo' = [todo EXCEPT ![s] = <<>>] /\ period' = [period EXCEPT !.failed = TRUE]
  /\ UNCHANGED <<settings, sink, log, sets>>
-----------------------------------------------------------------------------
(* The log *)

\* WriteIntoLogfile: ok, or an ASSERT fails after nothing, a part or all of the
\* line was written
WriteOutcomes == {"ok", "no_file", "torn", "close_failed"}

WriteIntoLogfile(file, line, outcome) ==
  CASE outcome \in {"ok", "close_failed"} -> Append(file, line)
    [] outcome = "torn" -> Append(file, [line EXCEPT !.torn = TRUE])
    [] outcome \in {"no_file", "not_utf8"} -> file

ParseLoggingTemplate(t) == t.ok /\ t.keys \cap RESERVED_KEYS = {}

\* mutant: the new template is in force before the session marker is written
SetTemplateEarly(t) ==
  /\ sets < MaxSets /\ sets' = sets + 1
  /\ \/ UNCHANGED <<sink, log>>
     \/ /\ ParseLoggingTemplate(t)
        /\ \E outcome \in WriteOutcomes :
             /\ log' = WriteIntoLogfile(log, Marker(t), outcome)
             /\ sink' = t
  /\ UNCHANGED <<settings, todo, period>>

\* the new sink replaces the old one when its constructor has returned: the
\* directory may not exist, the template be invalid, the marker not be written
zeromq_set_logging_template(t) ==
  /\ sets < MaxSets /\ sets' = sets + 1
  /\ \/ UNCHANGED <<sink, log>>
     \/ /\ ParseLoggingTemplate(t)
        /\ \E outcome \in WriteOutcomes :
             /\ log' = WriteIntoLogfile(log, Marker(t), outcome)
             /\ sink' = IF outcome = "ok" THEN t ELSE sink
  /\ UNCHANGED <<settings, todo, period>>

\* the line for message n: the template with the entry, its direction, the peer
\* of the server socket and a time stamp
LogEntry(n, fromServer) ==
  [kind |-> "entry", template |-> sink, msg |-> n, torn |-> FALSE,
   keys |-> sink.keys \cup {"str", "direction", "ts"} \cup (IF fromServer THEN {IDENTITY_KEY} ELSE {})]

\* json::dump throws before the write when a string of the entry is not UTF-8
EntryOutcomes == WriteOutcomes \cup {"not_utf8"}

LogCode(outcome) ==
  CASE outcome = "ok" -> "0"
    [] outcome = "not_utf8" -> "UNHANDLED_CPP_EXCEPTION"
    [] OTHER -> "INTERNAL_ERROR"

AddLogEntry(n, fromServer, outcome) == log' = WriteIntoLogfile(log, LogEntry(n, fromServer), outcome)
-----------------------------------------------------------------------------
SettingsTypeOK ==
  /\ settings \in [{"debugging", "busyWaiting", "logging", "ipv6"} -> BOOLEAN]
  /\ todo \in [Setters -> Seq([flag : DOMAIN settings, to : BOOLEAN])]
  /\ sink \in Templates \cup {DEFAULT_TEMPLATE}
  /\ sets \in 0..MaxSets

\* the flag that changes a setting from its default
Bit == [debugging |-> DEBUG, busyWaiting |-> NO_RECV_BUSY_WAITING, logging |-> LOGGING, ipv6 |-> IPV6]

\* what the flags val ask of setting f, when they concern it
Concerns(val, f) == IsSet(val, DEFAULT) \/ IsSet(val, Bit[f])
Requested(val, f) == IF IsSet(val, Bit[f]) THEN ~Defaults[f] ELSE Defaults[f]

Asked(vals, f) == {Requested(v, f) : v \in {v \in vals : Concerns(v, f)}}

(* When no zeromq_set is running any more and none failed, every setting    *)
(* has a value that the last calls asked for, the one call if they did not  *)
(* overlap; a setting that none of them concerns, those with rejected flags *)
(* included, keeps its value.  Meanwhile, and when a socket refuses IPv6, a *)
(* setting has its old value, its default or a requested one.               *)
SettingsApplied ==
  \A f \in DOMAIN settings :
    LET asked == Asked(period.vals, f) IN
      /\ asked = {} => settings[f] = period.old[f]
      /\ asked # {} /\ Quiet /\ ~period.failed => settings[f] \in asked
      /\ settings[f] \in {period.old[f], Defaults[f]} \cup asked

(* Every entry of the log has the keys of the template of its session and   *)
(* nothing else but its own: the template that was accepted last, whose     *)
(* session marker is the last complete one of an accepted template before   *)
(* the entry.                                                               *)
EntriesFollowTemplate ==
  \A i \in DOMAIN log : log[i].kind = "entry" =>
    /\ log[i].keys \ (RESERVED_KEYS \cup {IDENTITY_KEY}) = log[i].template.keys \ {IDENTITY_KEY}
    /\ \E j \in 1..i - 1 :
         /\ log[j] = Marker(log[i].template)
         /\ \A k \in j + 1..i - 1 : log[k].kind = "entry" => log[k].template = log[i].template
=============================================================================
