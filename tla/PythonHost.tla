------------------------------ MODULE PythonHost ------------------------------
(* The Python plugins live in a child process. The host writes one request at *)
(* a time and reads the lines of its answer, each within a timeout; a child   *)
(* that is late or has died is marked dead and never asked again. In the      *)
(* model every request has a number, and the child stamps its lines with it.  *)
(* src/plugins/src/out_of_process_plugin_host*.cpp, _host_child.py,           *)
(* src/app/src/unified_plugin_host.cpp, loaded_plugins_model.cpp              *)
EXTENDS Naturals, Sequences, SequencesExt, TLC

CONSTANTS Here,      \* the Python plugins on disk, with the texts of their names
          Broken,    \* those that cannot be imported
          Socket,    \* the plugins of the other host
          MaxLate,   \* how often the child may be late or die
          MaxCalls   \* the bound on requests

VARIABLES phase,    \* of the host object: "off", "ready?", "start", "up", "leaving", "down"
          os,       \* what it was built for
          alive,    \* aliveCached
          handle,   \* it holds the id of its child
          call,     \* the request in progress, NoRequest when idle
          sent,     \* requests written so far
          rows,     \* the plugins the drawer shows, with their names
          child,    \* the child: its life, its search path and its plugins
          inbox, wire, todo,   \* the two pipes, and the lines the child has yet to write
          late

hostVars == <<phase, os, alive, handle, call, sent, rows>>
pipeVars == <<inbox, wire, todo>>
vars == <<hostVars, child, pipeVars, late>>

(* How a text crosses the line: the child writes with Python's json, the host *)
(* reads with a reader of its own. A text is a sequence of kinds of           *)
(* characters; of escapes that carry a code point the first digit is kept.    *)
Quote == "quote"
Backslash == "backslash"
Newline == "newline"
Control == "control"
Accent == "accent"
Named == (Newline :> "n")

(* json.dumps: the characters JSON has no short name for become code points.  *)
Escaped(c) == CASE c \in {Quote, Backslash} -> <<Backslash, c>>
                [] c \in DOMAIN Named -> <<Backslash, Named[c]>>
                [] c \in {Control, Accent} -> <<Backslash, "u", "0">>
                [] OTHER -> <<c>>
Written(text) == FlattenSeq([i \in DOMAIN text |-> Escaped(text[i])]) \o <<Quote>>

(* The character an escape stands for: the reader knows the short names only. *)
Meant(c) == IF \E d \in DOMAIN Named : Named[d] = c THEN CHOOSE d \in DOMAIN Named : Named[d] = c ELSE c

(* decodeQuotedString, behind the opening quote.                              *)
Read(line) ==
  LET from[i \in 1..Len(line) + 1] ==
        IF i > Len(line) \/ line[i] = Quote THEN <<>>
        ELSE IF line[i] = Backslash /\ i < Len(line) THEN <<Meant(line[i + 1])>> \o from[i + 2]
        ELSE <<line[i]>> \o from[i + 1]
  IN  from[1]
-----------------------------------------------------------------------------
NoRequest == [op |-> "none"]
NoOne == [life |-> "none", searches |-> FALSE, loaded |-> <<>>]
Line(event, of, n) == [event |-> event, of |-> of, n |-> n,
                       name |-> IF of \in DOMAIN Here THEN Written(Here[of]) ELSE <<>>]

Init ==
  /\ phase = "off" /\ os \in {"posix", "windows"} /\ alive = FALSE /\ handle = FALSE
  /\ call = NoRequest /\ sent = 0 /\ rows = {}
  /\ child = NoOne /\ inbox = <<>> /\ wire = <<>> /\ todo = <<>> /\ late = 0
-----------------------------------------------------------------------------
(* The child is made, or one of the calls that prepare it fails.              *)
Born == /\ child' = [NoOne EXCEPT !.life = "started"]
        /\ alive' = TRUE /\ handle' = TRUE /\ phase' = "ready?"
NotBorn == phase' = "down" /\ UNCHANGED <<child, alive, handle>>
Spawn == /\ phase = "off" /\ os = "posix" /\ (Born \/ NotBorn)
         /\ UNCHANGED <<os, call, sent, rows, pipeVars, late>>
SpawnOnWindows == /\ phase = "off" /\ os = "windows" /\ (Born \/ NotBorn)
                  /\ UNCHANGED <<os, call, sent, rows, pipeVars, late>>

(* killChild, and the first line of the child.                                *)
Killed == child' = [child EXCEPT !.life = "reaped"] /\ alive' = FALSE /\ handle' = FALSE
Handshake ==
  /\ phase = "ready?"
  /\ \/ /\ wire # <<>> /\ wire' = Tail(wire) /\ UNCHANGED late
        /\ IF Head(wire).event = "ready" THEN phase' = "start" /\ UNCHANGED <<child, alive, handle>>
           ELSE Killed /\ phase' = "down"
     \/ /\ wire = <<>> /\ Killed /\ phase' = "down" /\ UNCHANGED wire
        /\ \/ child.life = "exited" /\ UNCHANGED late
           \/ late < MaxLate /\ late' = late + 1
  /\ UNCHANGED <<os, call, sent, rows, inbox, todo>>
-----------------------------------------------------------------------------
(* Three callers: the start adds the search path, loads and lists; the drawer *)
(* lists; an action of plugin p is routed by a list and then dispatched.      *)
Request(why, op, of) == [why |-> why, op |-> op, of |-> of, n |-> sent + 1, got |-> <<>>]
Waiting == call # NoRequest /\ call.n <= sent
Names(got) == {[id |-> got[i].id, name |-> got[i].name] : i \in DOMAIN got}
Others == {[id |-> p, name |-> <<>>] : p \in Socket}

Answered(c) ==
  LET then(op) == [c EXCEPT !.op = op, !.n = sent + 1, !.got = <<>>] IN
  /\ call' = CASE c.op = "path" -> then("load")
               [] c.op = "load" -> then("list")
               [] c.why = "route" /\ c.op = "list" /\ (\E i \in DOMAIN c.got : c.got[i].id = c.of) -> then("dispatch")
               [] OTHER -> NoRequest
  /\ rows' = IF c.op # "list" \/ c.why = "route" THEN rows
             ELSE Names(c.got) \cup (IF c.why = "rows" THEN Others ELSE {})
  /\ phase' = IF c.why = "start" /\ c.op = "list" THEN "up" ELSE phase
(* Without an answer the start fails, the drawer shows the other host's       *)
(* plugins and the action is taken for one of theirs.                         *)
Refused(c) == /\ call' = NoRequest
              /\ rows' = IF c.why = "rows" THEN Others ELSE rows
              /\ phase' = IF c.why = "start" THEN "leaving" ELSE phase

(* A request: refused when the child is known to be dead; a write into the    *)
(* pipe of a child that has died throws.                                      *)
Ask(c) ==
  /\ sent < MaxCalls
  /\ IF alive /\ child.life \notin {"exited", "reaped"}
     THEN /\ call' = c /\ sent' = sent + 1
          /\ inbox' = Append(inbox, [op |-> c.op, of |-> c.of, n |-> c.n])
          /\ UNCHANGED <<phase, rows>>
     ELSE Refused(c) /\ UNCHANGED <<sent, inbox>>
  /\ UNCHANGED <<os, alive, handle, child, wire, todo, late>>
Begin == phase = "start" /\ call = NoRequest /\ Ask(Request("start", "path", NoRequest))
Continue == call # NoRequest /\ ~ Waiting /\ Ask(call)
Refresh == phase = "up" /\ call = NoRequest /\ Ask(Request("rows", "list", NoRequest))
RefreshAlone == phase = "down" /\ rows' = Others
                /\ UNCHANGED <<phase, os, alive, handle, call, sent, child, pipeVars, late>>
Dispatch(p) == phase = "up" /\ call = NoRequest /\ Ask(Request("route", "list", p))

(* The lines an answer may have before its last, and the last.                *)
Before(op) == CASE op = "load" -> {"plugin_loaded", "plugin_error"} [] op = "list" -> {"plugin"} [] OTHER -> {}
Lasts(op) == CASE op = "path" -> {"path_added"} [] op = "load" -> {"load_complete"}
               [] op = "list" -> {"plugins_complete"} [] op = "dispatch" -> {"dispatched", "dispatch_error"}
Heard(l) == [id |-> l.of, name |-> Read(l.name), n |-> l.n]
ReadLine ==
  /\ Waiting /\ wire # <<>> /\ wire' = Tail(wire)
  /\ LET l == Head(wire) IN
     CASE l.event \in Before(call.op) -> call' = [call EXCEPT !.got = Append(@, Heard(l))] /\ UNCHANGED <<phase, rows>>
       [] l.event \in Lasts(call.op) -> Answered(call)
       [] OTHER -> Refused(call)
  /\ UNCHANGED <<os, alive, handle, sent, child, inbox, todo, late>>

(* The pipe is closed, or nothing came in time: the child counts as dead.     *)
Hangup == /\ Waiting /\ wire = <<>> /\ child.life \in {"exited", "reaped"}
          /\ alive' = FALSE /\ Refused(call)
          /\ UNCHANGED <<os, handle, sent, child, pipeVars, late>>
(* Bug: a child that was late is asked again, and its late lines are read.    *)
TimeoutForgiven == /\ Waiting /\ wire = <<>> /\ late < MaxLate /\ late' = late + 1
                   /\ Refused(call) /\ UNCHANGED <<os, alive, handle, sent, child, pipeVars>>

Timeout == /\ Waiting /\ wire = <<>> /\ late < MaxLate /\ late' = late + 1
           /\ alive' = FALSE /\ Refused(call)
           /\ UNCHANGED <<os, handle, sent, child, pipeVars>>

(* isAlive() notices a death and reaps.                                       *)
IsAlive == /\ alive /\ child.life = "exited" /\ call = NoRequest /\ Killed
           /\ UNCHANGED <<phase, os, call, sent, rows, pipeVars, late>>

(* The destructor: a child that counts as living is asked to leave, and       *)
(* killed if it stays; the pipes are closed in any case.                      *)
Destroy == /\ phase \in {"up", "leaving"} /\ call = NoRequest /\ phase' = "down"
           /\ IF alive /\ handle THEN Killed ELSE UNCHANGED <<alive, handle, child>>
           /\ wire' = <<>> /\ UNCHANGED <<os, call, sent, rows, inbox, todo, late>>
-----------------------------------------------------------------------------
(* The child's program runs, or is not found.                                 *)
ChildStarts ==
  /\ child.life = "started"
  /\ \/ /\ child' = [child EXCEPT !.life = "serving"]
        /\ wire' = Append(wire, Line("ready", NoRequest, 0))
     \/ /\ os = "posix" /\ child' = [child EXCEPT !.life = "exited"]
        /\ wire' = Append(wire, Line("spawn_error", NoRequest, 0))
  /\ UNCHANGED <<hostVars, inbox, todo, late>>

Serve(r, lines) == inbox' = Tail(inbox) /\ todo' = lines /\ UNCHANGED <<hostVars, wire, late>>
AddSearchPath(r) == /\ r.op = "path" /\ child' = [child EXCEPT !.searches = TRUE]
                    /\ Serve(r, <<Line("path_added", NoRequest, r.n)>>)
LoadAll(r) ==
  /\ r.op = "load" /\ UNCHANGED child
  /\ LET found == IF child.searches THEN SetToSeq(DOMAIN Here) ELSE <<>>
     IN  Serve(r, [i \in DOMAIN found |->
                     Line(IF found[i] \in Broken THEN "plugin_error" ELSE "plugin_loaded", found[i], r.n)]
                  \o <<Line("load_complete", NoRequest, r.n)>>)
ListPlugins(r) ==
  /\ r.op = "list" /\ UNCHANGED child
  /\ Serve(r, [i \in DOMAIN child.loaded |-> Line("plugin", child.loaded[i], r.n)]
              \o <<Line("plugins_complete", NoRequest, r.n)>>)
DispatchTo(r) ==
  /\ r.op = "dispatch" /\ UNCHANGED child
  /\ \E event \in {"dispatched", "dispatch_error"} : Serve(r, <<Line(event, NoRequest, r.n)>>)
ServeNext == /\ child.life = "serving" /\ todo = <<>> /\ inbox # <<>>
             /\ LET r == Head(inbox) IN AddSearchPath(r) \/ LoadAll(r) \/ ListPlugins(r) \/ DispatchTo(r)
(* The lines are written one by one; a plugin is there when its line is.      *)
Emit ==
  /\ child.life = "serving" /\ phase # "down" /\ todo # <<>> /\ todo' = Tail(todo)
  /\ wire' = Append(wire, Head(todo))
  /\ child' = IF Head(todo).event = "plugin_loaded" THEN [child EXCEPT !.loaded = Append(@, Head(todo).of)]
              ELSE child
  /\ UNCHANGED <<hostVars, inbox, late>>
(* A plugin takes the child down, or the host's ends of the pipes are closed. *)
ChildEnds == /\ child.life = "serving"
             /\ \/ late < MaxLate /\ late' = late + 1
                \/ phase = "down" /\ (todo # <<>> \/ inbox = <<>>) /\ UNCHANGED late
             /\ child' = [child EXCEPT !.life = "exited"] /\ todo' = <<>>
             /\ UNCHANGED <<hostVars, inbox, wire>>
-----------------------------------------------------------------------------
Next == \/ Spawn \/ SpawnOnWindows \/ Handshake \/ Begin \/ Refresh \/ RefreshAlone \/ Continue
        \/ \E p \in DOMAIN Here \cup Socket : Dispatch(p)
        \/ ReadLine \/ Hangup \/ Timeout \/ IsAlive \/ Destroy
        \/ ChildStarts \/ ServeNext \/ Emit \/ ChildEnds
Spec == Init /\ [][Next]_vars

(* The types of the host; a host that holds no child knows it is dead.        *)
TypeOK == /\ phase \in {"off", "ready?", "start", "up", "leaving", "down"}
          /\ alive \in BOOLEAN /\ handle \in BOOLEAN /\ (alive => handle)
          /\ child.life \in {"none", "started", "serving", "exited", "reaped"}
          /\ sent \in 0..MaxCalls /\ late \in 0..MaxLate

(* What a caller is told is the child's answer to its own request: no line of *)
(* an earlier request is taken for one of this, and a list is the plugins the *)
(* child has, in their order and by the names they have.                      *)
AnswersAreOfTheirCall ==
  Waiting => \A i \in DOMAIN call.got :
    LET g == call.got[i] IN /\ g.n = call.n /\ g.name = Here[g.id]
                            /\ call.op = "list" => g.id = child.loaded[i]
=============================================================================
