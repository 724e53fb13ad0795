---------------------------------- MODULE Logging ----------------------------------
(***************************************************************************)
(* pkg/logutil and pkg/logsrv: the two backends of one logger, derived by  *)
(* the same calls and given the same records.  logutil stacks a hook, a    *)
(* filter of attributes and a handler that adds the trace ID on the        *)
(* standard library's handler; logsrv writes to zerolog, and remembers a   *)
(* write that failed until a caller takes the error.                       *)
(* An attribute is a key and a value; a value has a kind, and the members  *)
(* of a group or the value a LogValuer resolves to.  A field is an         *)
(* attribute as written: a leaf, or an object of fields.                   *)
(***************************************************************************)
EXTENDS Integers, SequencesExt

CONSTANTS
  Configs,    \* [traceID : BOOLEAN, hook : BOOLEAN, none : BOOLEAN, level : a name, common : attributes]
  AttrLists,  \* what With is given
  Groups,     \* what WithGroup is given
  Records,    \* [level : Int, time : {"zero", "now", "far"}, attrs : attributes]
  MaxOps,     \* bound: derivations
  MaxCalls    \* bound: calls of the logger, by as many goroutines

TraceIDKey == "trace_id"

VARIABLE st  \* both handlers, the last line each wrote, and how many calls have written and not returned

RECURSIVE Resolve(_), attrRenders(_), sanitizeAttr(_), attrHasRootKey(_, _), Written(_), addAttrEvent(_), addRootAttrEvent(_),
          buildGroupDict(_, _), Nested(_), Rendering(_)

\* A LogValuer is asked until the value is not one.
Resolve(v) == IF v.kind = "valuer" THEN Resolve(v.members[1].value) ELSE v
Resolved(a) == [a EXCEPT !.value = Resolve(a.value)]
ZeroAttr(a) == a.key = "" /\ a.value.kind = "null"

Field(key, leaf) == [key |-> key, leaf |-> leaf, fields |-> <<>>]
Object(key, fields) == [key |-> key, leaf |-> "", fields |-> fields]

Collect(F(_), s) == FlattenSeq([i \in DOMAIN s |-> F(s[i])])

-----------------------------------------------------------------------------
(* Levels *)

Levels == [emergency |-> 64, alert |-> 32, critical |-> 16, error |-> 8, warning |-> 4, notice |-> 2, info |-> 0,
           debug |-> -4, trace |-> -8]
ValidLevel(l) == l \in Range(Levels)
\* The syslog name, and slog's own for a level between them.
LevelName(l) == IF ValidLevel(l) THEN CHOOSE n \in DOMAIN Levels : Levels[n] = l ELSE "slog"
ParseLevel(n) == Levels[n]

-----------------------------------------------------------------------------
(* logutil: what writes a field *)

valueRenders(value) ==
  CASE value.kind = "group" -> \E i \in DOMAIN value.members : attrRenders(value.members[i])
    [] value.kind = "source" -> value.members # <<>>
    [] OTHER -> value.kind # "nil error"

attrRenders(a) == ~ZeroAttr(Resolved(a)) /\ valueRenders(Resolve(a.value))

encodableJSONTime(value) == value.kind # "far time"

\* The attributes kept, each resolved, with the times and the groups the standard library cannot
\* write repaired or left out.
sanitizeAttrs(attrs) == Collect(sanitizeAttr, attrs)

\* Mutant: a group is kept whatever is left of it.
sanitizeAttr_KeepsEmpty(a) ==
  LET value == Resolve(a.value)
  IN  IF value.kind = "far time" THEN <<[a EXCEPT !.value = [kind |-> "far text", members |-> <<>>]]>>
      ELSE IF value.kind = "group" THEN <<[a EXCEPT !.value = [value EXCEPT !.members = sanitizeAttrs(@)]]>>
      ELSE IF attrRenders(a) THEN <<Resolved(a)>> ELSE <<>>

sanitizeAttr(a) ==
  LET value   == Resolve(a.value)
      members == sanitizeAttrs(value.members)
  IN  CASE ~encodableJSONTime(value) -> <<[a EXCEPT !.value = [kind |-> "far text", members |-> <<>>]]>>
        [] value.kind = "group" -> IF members = <<>> THEN <<>> ELSE <<[a EXCEPT !.value = [value EXCEPT !.members = members]]>>
        [] OTHER -> IF attrRenders(a) THEN <<Resolved(a)>> ELSE <<>>

\* The record as it is, unless an attribute of it may need repair.
recordMayNeedSanitize(attrs) ==
  \E i \in DOMAIN attrs : LET v == attrs[i].value IN
    v.kind \in {"group", "valuer"} \/ ~encodableJSONTime(v) \/ (v.kind \in {"source", "nil error"} /\ ~valueRenders(v))
sanitizeRecord(attrs) == IF recordMayNeedSanitize(attrs) THEN sanitizeAttrs(attrs) ELSE attrs

\* A root-level field of that name, through groups without a name.
attrHasRootKey(a, key) ==
  LET v == Resolve(a.value)
  IN  IF a.key = key THEN valueRenders(v)
      ELSE a.key = "" /\ v.kind = "group" /\ \E i \in DOMAIN v.members : attrHasRootKey(v.members[i], key)
hasRootKey(attrs, key) == \E i \in DOMAIN attrs : attrHasRootKey(attrs[i], key)
attrsRender(attrs) == \E i \in DOMAIN attrs : attrRenders(attrs[i])

-----------------------------------------------------------------------------
(* The standard library's handler: frames of a group's name and what was written in it *)

Broken == "broken"  \* what no reader of the line can parse, or must not be resolved again

\* The fields an attribute is written as.  A group all of whose members are left out spoils the
\* line, one without members is written empty, and so are a time out of range and a nil error.
Written(a) ==
  LET v   == a.value
      sub == Collect(Written, v.members)
  IN  CASE ZeroAttr(a) \/ (v.kind = "source" /\ sub = <<>>) -> <<>>
        [] v.kind \in {"valuer", "far time"} -> <<Field(a.key, Broken)>>
        [] v.kind \in {"group", "source"} -> IF sub = <<>> THEN <<Field(a.key, Broken)>>
                                             ELSE IF a.key = "" THEN sub ELSE <<Object(a.key, sub)>>
        [] OTHER -> <<Field(a.key, v.kind)>>

StdWithAttrs(frames, attrs) == [frames EXCEPT ![Len(frames)].fields = @ \o Collect(Written, attrs)]
StdWithGroup(frames, name) == Append(frames, [name |-> name, fields |-> <<>>])

\* Groups inside each other, those without fields left out.
Nested(frames) ==
  LET inner == IF Len(frames) = 1 THEN <<>> ELSE Nested(Tail(frames))
  IN  Head(frames).fields \o (IF inner = <<>> THEN <<>> ELSE <<Object(frames[2].name, inner)>>)
StdHandle(frames, attrs) == Nested(StdWithAttrs(frames, attrs))

\* A record's time; one out of range is written as text.
timeText(time) == [zero |-> "none", now |-> "time", far |-> "far text"][time]

\* The callback that writes a level's name and a time the encoder cannot write.
replaceLevelName(r) == [level |-> LevelName(r.level), time |-> timeText(r.time)]

-----------------------------------------------------------------------------
(* logutil: the handlers *)

\* The common attributes are written once, below the handlers that look at attributes.
newSlogTraceIDHandler(cfg) ==
  LET common == sanitizeAttrs(cfg.common)
      root   == StdWithAttrs(<<[name |-> "", fields |-> <<>>]>>, common)
  IN  [inner |-> root, root |-> root, ops |-> <<>>, grouped |-> FALSE, traceAttr |-> hasRootKey(common, TraceIDKey),
       traceGroup |-> FALSE, traceFilled |-> FALSE, traceIDFn |-> cfg.traceID]

\* The filter's WithAttrs, then the trace handler's.
UtilWithAttrs(h, given) ==
  LET attrs == sanitizeAttrs(given)
  IN  IF attrs = <<>> THEN h
      ELSE [h EXCEPT !.inner = StdWithAttrs(@, attrs), !.ops = Append(@, [attrs |-> attrs, group |-> ""]),
                     !.traceAttr = @ \/ (~h.grouped /\ hasRootKey(attrs, TraceIDKey)),
                     !.traceFilled = @ \/ (h.traceGroup /\ attrsRender(attrs))]

UtilWithGroup(h, name) ==
  IF name = "" THEN h
  ELSE [h EXCEPT !.inner = StdWithGroup(@, name), !.ops = Append(@, [attrs |-> <<>>, group |-> name]), !.grouped = TRUE,
                 !.traceGroup = @ \/ (~h.grouped /\ name = TraceIDKey)]

\* Mutant: a group of that name is counted before anything is known to be in it.
carriesRootTraceID_AnyGroup(h, attrs) == h.traceAttr \/ h.traceGroup

carriesRootTraceID(h, attrs) == h.traceAttr \/ (h.traceGroup /\ (h.traceFilled \/ attrsRender(attrs)))

traceIDAttr == [key |-> TraceIDKey, value |-> [kind |-> "injected", members |-> <<>>]]
leadRecord(attrs, lead) == <<lead>> \o attrs

\* Without a group the trace ID leads the record; with one the derivations are done again, after
\* the trace ID, so that it stays outside the group.
UtilHandle(h, given) ==
  LET attrs  == sanitizeRecord(given)
      start  == IF carriesRootTraceID(h, attrs) THEN h.root ELSE StdWithAttrs(h.root, <<traceIDAttr>>)
      replay == FoldLeft(LAMBDA t, op : IF op.group # "" THEN StdWithGroup(t, op.group) ELSE StdWithAttrs(t, op.attrs), start, h.ops)
  IN  IF ~h.traceIDFn THEN StdHandle(h.inner, attrs)
      ELSE IF h.grouped THEN StdHandle(replay, attrs)
      ELSE IF h.traceAttr \/ hasRootKey(attrs, TraceIDKey) THEN StdHandle(h.inner, attrs)
      ELSE StdHandle(h.inner, leadRecord(attrs, traceIDAttr))

-----------------------------------------------------------------------------
(* logsrv *)

\* The resolved value, a caller's location as the group of its parts; empty if it writes nothing.
resolveAttr(a) ==
  LET v == Resolve(a.value)
  IN  [value |-> IF v.kind = "source" THEN [v EXCEPT !.kind = "group"] ELSE v,
       empty |-> ZeroAttr(Resolved(a)) \/ (v.kind = "source" /\ v.members = <<>>)]

addErrEvent(key, v) == IF v.kind = "nil error" THEN <<>> ELSE <<Field(key, v.kind)>>

\* What a value renders by itself may panic: the sentinel is a field too.
addAnyEvent(key, v) ==
  IF v.kind \in {"error", "nil error"} THEN addErrEvent(key, v) ELSE <<Field(key, v.kind)>>

addGroupEvent(key, attrs) ==
  LET fields == Collect(addAttrEvent, attrs)
  IN  IF key = "" \/ fields = <<>> THEN fields ELSE <<Object(key, fields)>>

addValueEvent(key, v) ==
  CASE v.kind = "group" -> addGroupEvent(key, v.members)
    [] v.kind = "far time" -> <<Field(key, "far text")>>
    [] OTHER -> addAnyEvent(key, v)

addAttrEvent(a) == LET r == resolveAttr(a) IN IF r.empty THEN <<>> ELSE addValueEvent(a.key, r.value)

\* The fields an attribute adds to the root, and whether the trace ID is one of them.
addRootAttrEvent(a) ==
  LET r       == resolveAttr(a)
      members == [i \in DOMAIN r.value.members |-> addRootAttrEvent(r.value.members[i])]
      fields  == addValueEvent(a.key, r.value)
  IN  IF r.empty THEN [fields |-> <<>>, trace |-> FALSE]
      ELSE IF a.key = "" /\ r.value.kind = "group"
      THEN [fields |-> Collect(LAMBDA m : m.fields, members), trace |-> \E i \in DOMAIN members : members[i].trace]
      ELSE [fields |-> fields, trace |-> fields # <<>> /\ a.key = TraceIDKey]

\* The attributes of a logger without a group are written once, into zerolog's context, by the
\* same choices as an event's.
applyRootContext(c, a) == LET r == addRootAttrEvent(a) IN [fields |-> c.fields \o r.fields, trace |-> c.trace \/ r.trace]

SrvWithAttrs(h, attrs) ==
  LET c == FoldLeft(applyRootContext, [fields |-> h.logger, trace |-> h.traceAttr], attrs)
  IN  CASE attrs = <<>> -> h
        [] h.groups = <<>> -> [h EXCEPT !.logger = c.fields, !.traceAttr = c.trace]
        [] OTHER -> [h EXCEPT !.groups[Len(h.groups)].attrs = @ \o attrs]

SrvWithGroup(h, name) == IF name = "" THEN h ELSE [h EXCEPT !.groups = Append(@, [name |-> name, attrs |-> <<>>])]

NewHandler(cfg) == SrvWithAttrs([logger |-> <<>>, groups |-> <<>>, traceAttr |-> FALSE, traceIDFn |-> cfg.traceID], cfg.common)

buildGroupDict(frames, attrs) ==
  LET child == IF Len(frames) = 1 THEN <<>> ELSE buildGroupDict(Tail(frames), attrs)
  IN  Collect(addAttrEvent, frames[1].attrs)
      \o (IF Len(frames) = 1 THEN Collect(addAttrEvent, attrs) ELSE IF child = <<>> THEN <<>> ELSE <<Object(frames[2].name, child)>>)

InjectedTraceID(h, has) == IF h.traceIDFn /\ ~has THEN <<Field(TraceIDKey, "injected")>> ELSE <<>>

writeRoot(h, attrs) ==
  LET c == FoldLeft(applyRootContext, [fields |-> <<>>, trace |-> h.traceAttr], attrs)
  IN  c.fields \o InjectedTraceID(h, c.trace)

SrvHandle(h, attrs) ==
  LET dict == buildGroupDict(h.groups, attrs)
      name == h.groups[1].name
  IN  h.logger \o (IF h.groups = <<>> THEN writeRoot(h, attrs)
                   ELSE InjectedTraceID(h, h.traceAttr \/ (dict # <<>> /\ name = TraceIDKey))
                        \o (IF dict = <<>> THEN <<>> ELSE <<Object(name, dict)>>))

-----------------------------------------------------------------------------
(* A logger, derived and used *)

NoError == 0
Line(level, time, fields) == [level |-> level, time |-> time, fields |-> fields]
NoLine == Line("", "", <<>>)

Init == \E cfg \in Configs :
  st = [cfg |-> cfg, util |-> newSlogTraceIDHandler(cfg), srv |-> NewHandler(cfg), ops |-> <<>>, rec |-> <<>>,
        utilLine |-> NoLine, srvLine |-> NoLine, hooked |-> 0, calls |-> 0, enabled |-> 0,
        err |-> NoError, wrote |-> 0, failed |-> NoError, reported |-> {}]

With == \E attrs \in AttrLists :
  /\ Len(st.ops) < MaxOps /\ st.calls = 0
  /\ st' = [st EXCEPT !.util = UtilWithAttrs(@, attrs), !.srv = SrvWithAttrs(@, attrs), !.ops = Append(@, [attrs |-> attrs, group |-> ""])]

WithGroup == \E name \in Groups :
  /\ Len(st.ops) < MaxOps /\ st.calls = 0
  /\ st' = [st EXCEPT !.util = UtilWithGroup(@, name), !.srv = SrvWithGroup(@, name),
                      !.ops = IF name = "" THEN @ ELSE Append(@, [attrs |-> <<>>, group |-> name])]

\* Without a hook nothing is done for a format that writes nothing.
Enabled(level) == level >= ParseLevel(st.cfg.level) /\ (st.cfg.none => st.cfg.hook)

\* Mutant: a write that succeeds clears what a sibling's left.
errWriterWrite_Clears(err, fails, call) == IF fails THEN call ELSE NoError

\* The error of the most recent write that failed, kept until it is taken.
errWriterWrite(err, fails, call) == IF fails THEN call ELSE err

\* A call up to its write; zerolog serializes writes, not what follows them.
Handle == \E r \in Records, fails \in BOOLEAN :
  LET call == st.calls + 1
      std  == replaceLevelName(r)
  IN  /\ st.calls < MaxCalls /\ (fails => ~st.cfg.none)
      /\ st' = IF ~Enabled(r.level) THEN [st EXCEPT !.calls = call, !.rec = <<>>, !.utilLine = NoLine, !.srvLine = NoLine]
               ELSE [st EXCEPT !.calls = call, !.enabled = @ + 1, !.hooked = IF st.cfg.hook THEN @ + 1 ELSE @, !.rec = r.attrs,
                               !.utilLine = Line(std.level, std.time, UtilHandle(st.util, r.attrs)),
                               !.srvLine = Line(LevelName(r.level), timeText(r.time), SrvHandle(st.srv, r.attrs)),
                               !.wrote = @ + 1, !.err = errWriterWrite(@, fails, call), !.failed = IF fails THEN call ELSE @]

\* One of the calls that wrote takes the error, whoever's it is, and returns.
takeErr ==
  /\ st.wrote > 0
  /\ st' = [st EXCEPT !.wrote = @ - 1, !.err = NoError, !.reported = IF st.err = NoError THEN @ ELSE @ \cup {st.err},
                      !.rec = <<>>, !.utilLine = NoLine, !.srvLine = NoLine]

Next == With \/ WithGroup \/ Handle \/ takeErr

-----------------------------------------------------------------------------
(* Properties *)

\* The fields of an attribute, by what the packages say of it: as resolved, without what writes
\* nothing, and a group without a name as its members.
Rendering(a) ==
  LET v == Resolve(a.value)
      sub == Collect(Rendering, v.members)
  IN  CASE ZeroAttr(Resolved(a)) \/ v.kind = "nil error" -> <<>>
        [] v.kind = "far time" -> <<Field(a.key, "far text")>>
        [] v.kind \in {"group", "source"} -> IF a.key = "" \/ sub = <<>> THEN sub ELSE <<Object(a.key, sub)>>
        [] OTHER -> <<Field(a.key, v.kind)>>

Frames == FoldLeft(LAMBDA f, op : IF op.group # "" THEN StdWithGroup(f, op.group)
                                  ELSE [f EXCEPT ![Len(f)].fields = @ \o Collect(Rendering, op.attrs)],
                   <<[name |-> "", fields |-> Collect(Rendering, st.cfg.common)]>>, st.ops)
CallersFields == Nested([Frames EXCEPT ![Len(Frames)].fields = @ \o Collect(Rendering, st.rec)])

TraceFields(fields) == SelectSeq(fields, LAMBDA f : f.key = TraceIDKey)
Injected(f) == f.key = TraceIDKey /\ f.leaf = "injected"

\* Whatever a logger was derived by and is given, both backends write what the caller asked for,
\* once and in order, in a line that can be read, and one trace ID at the root: the caller's if
\* there is one, else the injected one.
BackendsAgree ==
  LET own == CallersFields
  IN  st.srvLine # NoLine => \A line \in {st.utilLine, st.srvLine} :
        /\ SelectSeq(line.fields, LAMBDA f : ~Injected(f)) = own
        /\ Len(SelectSeq(line.fields, Injected)) = IF st.cfg.traceID /\ TraceFields(own) = <<>> THEN 1 ELSE 0
        /\ line.level = st.srvLine.level /\ line.time = st.srvLine.time

\* The hook is called for every record that passes the level.  Once every call has returned, no
\* error of a write waits to be reported by a later call, and the most recent one was reported.
NoFailureIsSilent ==
  /\ st.cfg.hook => st.hooked = st.enabled
  /\ st.wrote = 0 => st.err = NoError /\ (st.failed # NoError => st.failed \in st.reported)

LogsAreTrue == BackendsAgree /\ NoFailureIsSilent

=============================================================================
