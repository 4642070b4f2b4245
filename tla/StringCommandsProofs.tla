------------------------ MODULE StringCommandsProofs ------------------------
(***************************************************************************)
(* Proofs about StringCommands: what holds when the event loop is the only *)
(* client, whose commands run one after the other and only crashes cut     *)
(* short, and the types, which hold whatever clients there are.            *)
(***************************************************************************)
EXTENDS StringCommands, TLAPS

-----------------------------------------------------------------------------
(* The inductive invariant *)

Drops == {"purge", "dropOrphan", "dropType", "dropDeadline", "dropValue"}
Puts == {"putValue", "putType", "putDeadline", "persist", "unset"}
Steps == {"idle", "first", "second", "read", "tag"} \cup Drops \cup Puts

Times == 0 .. MaxNow + MaxEx

CommandSet == [op : {"none", "get", "set", "del"}, number : 0 .. MaxCommands,
               flag : {"none", "nx", "xx"}, ex : 0 .. MaxEx \cup {Absent}, since : 0 .. MaxNow]

Types ==
    /\ value \in Numbers \cup {Absent} /\ type \in {"string", Absent}
    /\ deadline \in Times \cup {Absent} /\ now \in 0 .. MaxNow
    /\ at \in [Clients -> Steps] /\ cmd \in [Clients -> CommandSet]
    /\ used \in 0 .. MaxCommands /\ crashes \in Nat
    /\ until \in [Numbers -> Times \cup {Absent}]
    /\ alone \subseteq Clients /\ solid \in Numbers \cup {Absent}
    /\ \A g \in got : g.answer \in Numbers \cup {Absent}

\* What the command has done so far.
Course ==
    LET l == at[Loop]
        d == cmd[Loop]
    IN  /\ l # "idle" => d.number = used /\ d.number \in Numbers /\ d.since <= now
        /\ l \in {"first", "second", "read"} => d.op \in {"get", "set"}
        /\ l = "tag" => d.op = "del"
        /\ l \in Puts => d.op = "set"
        /\ l \in {"dropOrphan", "dropDeadline", "dropValue"} => type = Absent
        /\ l \in Puts \ {"putValue"} => value = d.number
        /\ l \in {"putDeadline", "persist", "unset"} => type = "string"
        /\ l = "putDeadline" => d.ex # Absent
        /\ l = "putValue" /\ d.flag = "nx" => value = Absent \/ type = Absent
        /\ type # Absent => value # Absent
        /\ value # Absent => value <= used

Live(n) == until[n] = Absent \/ now < until[n]

\* A SET that has met no other writer since: readers do not purge it.
Solid ==
    solid # Absent =>
        /\ at[Loop] # "idle" => cmd[Loop].op = "get"
        /\ Live(solid) => /\ value = solid /\ type = "string" /\ deadline = until[solid]
                          /\ at[Loop] \notin Drops

\* Without crashes a value has its deadline except within a writer or a purge.
Fresh ==
    crashes = 0 =>
        /\ at[Loop] \notin Puts \cup {"dropDeadline", "dropValue"} /\ value # Absent =>
             type = "string" /\ deadline = until[value]
        /\ at[Loop] = "read" => deadline = Absent \/ cmd[Loop].since < deadline
        /\ \A g \in got : g.answer # Absent =>
             /\ until[g.answer] = Absent \/ g.since < until[g.answer]
             /\ g.answer <= used
             /\ at[Loop] # "idle" /\ cmd[Loop].op # "get" => g.answer < used

Inv == Types /\ Course /\ Solid /\ Fresh

LEMMA InvInit == ASSUME Clients = {Loop}, Init PROVE Inv
<1> USE StringAssumption DEF Init
<1>1. Types
  BY DEF Types, Steps, Times, CommandSet, NoCommand, Numbers
<1>2. Course /\ Solid /\ Fresh
  BY DEF Course, Solid, Fresh, Puts
<1> QED  BY <1>1, <1>2 DEF Inv

\* A command begins.
LEMMA BeginStep ==
    ASSUME Clients = {Loop}, Inv,
           NEW op \in {"get", "set", "del"}, NEW flag \in {"none", "nx", "xx"},
           NEW ex \in {Absent} \cup (1 .. MaxEx), Begin(Loop, op, flag, ex)
    PROVE  Inv'
<1> USE StringAssumption
<1>inv. Types /\ Course /\ Solid /\ Fresh
  BY DEF Inv
<1> DEFINE d == [op |-> op, number |-> used + 1, flag |-> flag, ex |-> ex, since |-> now]
<1>1. /\ at[Loop] = "idle" /\ used < MaxCommands /\ used' = used + 1
      /\ cmd' = [cmd EXCEPT ![Loop] = d]
      /\ at' = [at EXCEPT ![Loop] = CASE op = "get" -> "second" [] op = "set" -> "first" [] op = "del" -> "tag"]
      /\ UNCHANGED <<value, type, deadline, now, crashes, until, got>>
      /\ op = "get" => UNCHANGED <<alone, solid>>
      /\ op # "get" => solid' = Absent /\ alone' \subseteq Clients
  BY DEF Begin, Goto, cells
<1>2. /\ at'[Loop] = CASE op = "get" -> "second" [] op = "set" -> "first" [] op = "del" -> "tag"
      /\ cmd'[Loop] = d /\ d \in CommandSet
  BY <1>1, <1>inv DEF Types, CommandSet
<1>3. /\ at'[Loop] \in {"first", "second", "tag"} /\ (at'[Loop] = "tag" <=> op = "del")
      /\ d.op = op /\ d.number = used + 1 /\ d.since = now
  BY <1>2
<1> HIDE DEF d
<1>4. Types'
  BY <1>1, <1>2, <1>3, <1>inv DEF Types, Steps
<1>5. Course'
  BY <1>1, <1>2, <1>3, <1>inv DEF Course, Types, Puts, Numbers
<1>6. Solid'
  BY <1>1, <1>2, <1>3, <1>inv DEF Solid, Drops, Live
<1>7. Fresh'
  BY <1>1, <1>2, <1>3, <1>inv DEF Fresh, Puts, Types, Numbers
<1> QED  BY <1>4, <1>5, <1>6, <1>7 DEF Inv

\* A command returns and has written nothing since its last step.
LEMMA ReturnStep ==
    ASSUME Clients = {Loop}, Inv, NEW a, Return(Loop, a), cmd[Loop].op = "get" => a \in Numbers \cup {Absent},
           at[Loop] # "idle", UNCHANGED <<now, cmd, used, crashes>>,
           Types => value' \in Numbers \cup {Absent} /\ type' \in {"string", Absent} /\ deadline' \in Times \cup {Absent},
           type' # Absent => value' # Absent, value' # Absent => value' <= used,
           solid # Absent /\ Live(solid) => value' = solid /\ type' = "string" /\ deadline' = until[solid],
           crashes = 0 =>
             /\ value' # Absent => type' = "string" /\ deadline' = until[value']
             /\ cmd[Loop].op = "get" /\ a # Absent =>
                  a <= used /\ (until[a] = Absent \/ cmd[Loop].since < until[a])
    PROVE  Inv'
<1> USE StringAssumption
<1>inv. Types /\ Course /\ Solid /\ Fresh
  BY DEF Inv
<1> DEFINE new == [answer |-> a, since |-> cmd[Loop].since]
<1>1. /\ at' = [at EXCEPT ![Loop] = "idle"] /\ UNCHANGED <<until, alone, solid>>
      /\ got' = IF cmd[Loop].op = "get" THEN got \cup {new} ELSE got
  BY DEF Return, Goto
<1>2. at'[Loop] = "idle" /\ at' \in [Clients -> Steps] /\ new.answer = a /\ new.since = cmd[Loop].since
  BY <1>1, <1>inv DEF Types, Steps
<1> HIDE DEF new
<1>3. Types'
  BY <1>1, <1>2, <1>inv DEF Types
<1>4. Course'
  BY <1>1, <1>2, <1>inv DEF Course, Puts
<1>5. Solid'
  BY <1>1, <1>2, <1>inv DEF Solid, Live, Drops
<1>6. Fresh'
  BY <1>1, <1>2, <1>inv DEF Fresh, Puts
<1> QED  BY <1>3, <1>4, <1>5, <1>6 DEF Inv

\* A SET returns with the value, its type and its deadline in place.
LEMMA AcknowledgeStep ==
    ASSUME Clients = {Loop}, Inv, NEW u \in Times \cup {Absent}, Acknowledge(Loop, u),
           at[Loop] \in {"putDeadline", "persist", "unset"}, UNCHANGED <<value, type, now, cmd, used, crashes>>,
           deadline' = u
    PROVE  Inv'
<1> USE StringAssumption
<1>inv. Types /\ Course /\ Solid /\ Fresh
  BY DEF Inv
<1> DEFINE n == cmd[Loop].number
<1>1. /\ at' = [at EXCEPT ![Loop] = "idle"] /\ until' = [until EXCEPT ![n] = u]
      /\ solid' = IF Loop \in alone THEN n ELSE solid
      /\ UNCHANGED <<alone, got>>
  BY DEF Acknowledge, Goto
<1>2. at'[Loop] = "idle" /\ at' \in [Clients -> Steps]
  BY <1>1, <1>inv DEF Types, Steps
<1>3. value = n /\ n = used /\ n \in Numbers /\ type = "string" /\ cmd[Loop].op = "set" /\ solid = Absent
  BY <1>inv DEF Course, Puts, Solid
<1>4. /\ until' \in [Numbers -> Times \cup {Absent}] /\ until'[n] = u
      /\ \A m \in Numbers : m # n => until'[m] = until[m]
  BY <1>1, <1>3, <1>inv DEF Types
<1>5. Types'
  BY <1>1, <1>2, <1>3, <1>4, <1>inv DEF Types
<1>6. Course'
  BY <1>1, <1>2, <1>inv DEF Course, Puts
<1>7. Solid'
  BY <1>1, <1>2, <1>3, <1>4 DEF Solid, Live, Drops
<1>8. Fresh'
  BY <1>1, <1>2, <1>3, <1>4, <1>inv DEF Fresh, Types, Puts, Numbers
<1> QED  BY <1>5, <1>6, <1>7, <1>8 DEF Inv

\* A command goes on.
LEMMA GotoStep ==
    ASSUME Clients = {Loop}, Inv, NEW l \in Steps \ {"idle"}, Goto(Loop, l), at[Loop] # "idle",
           UNCHANGED <<now, cmd, used, crashes>>, UNCHANGED ghosts,
           value' \in Numbers \cup {Absent}, type' \in {"string", Absent}, deadline' \in Times \cup {Absent},
           Course', Solid', Fresh'
    PROVE  Inv'
<1>1. Types
  BY DEF Inv
<1> QED  BY <1>1 DEF Inv, Types, Goto, ghosts

\* set() goes on or is refused.
LEMMA DecideStep ==
    ASSUME Clients = {Loop}, Inv, NEW found \in BOOLEAN, Decide(Loop, found), cmd[Loop].op = "set",
           at[Loop] # "idle", UNCHANGED <<now, cmd, used, crashes>>, ~ found => value' = Absent \/ type' = Absent,
           value' \in Numbers \cup {Absent}, type' \in {"string", Absent}, deadline' \in Times \cup {Absent},
           type' # Absent => value' # Absent, value' # Absent => value' <= used,
           crashes = 0 => (value' # Absent => type' = "string" /\ deadline' = until[value'])
    PROVE  Inv'
<1> USE StringAssumption
<1>inv. Types /\ Course /\ Solid /\ Fresh
  BY DEF Inv
<1>1. solid = Absent
  BY <1>inv DEF Solid
<1>2. CASE Return(Loop, Absent)
  BY <1>1, <1>2, ReturnStep
<1>3. CASE Goto(Loop, "putValue") /\ UNCHANGED ghosts /\ ~ (cmd[Loop].flag = "nx" /\ found)
  <2>1. at'[Loop] = "putValue"
    BY <1>3, <1>inv DEF Goto, Types
  <2>2. Course'
    BY <1>3, <2>1, <1>inv DEF Course, Puts
  <2>3. Solid' /\ Fresh'
    BY <1>1, <1>3, <2>1, <1>inv DEF Solid, Fresh, Puts, ghosts
  <2> QED  BY <1>3, <2>2, <2>3, GotoStep DEF Steps, Puts
<1> QED  BY <1>2, <1>3 DEF Decide

\* Nothing is left of the key but the orphan that a crash may have left.
LEMMA PurgedStep ==
    ASSUME Clients = {Loop}, Inv, Purged(Loop), at[Loop] \in {"dropOrphan", "dropValue"},
           UNCHANGED <<type, now, cmd, used, crashes>>, type = Absent,
           value' \in {value, Absent}, crashes = 0 => value' = Absent, deadline' \in {deadline, Absent}
    PROVE  Inv'
<1> USE StringAssumption
<1>inv. Types /\ Course /\ Solid /\ Fresh
  BY DEF Inv
<1>1. /\ value' \in Numbers \cup {Absent} /\ type' \in {"string", Absent} /\ deadline' \in Times \cup {Absent}
      /\ value' # Absent => value' <= used
  BY <1>inv DEF Types, Course
<1>2. solid = Absent \/ ~ Live(solid)
  BY <1>inv DEF Solid, Drops
<1>3. CASE cmd[Loop].op = "set"
  BY <1>1, <1>3, <1>inv, DecideStep DEF Purged
<1>4. CASE cmd[Loop].op # "set"
  BY <1>1, <1>2, <1>4, ReturnStep DEF Purged
<1> QED  BY <1>3, <1>4

LEMMA InvStep == ASSUME Clients = {Loop}, Inv, [Next]_vars PROVE Inv'
<1> USE StringAssumption
<1>inv. Types /\ Course /\ Solid /\ Fresh
  BY DEF Inv
<1>types. /\ value \in Numbers \cup {Absent} /\ type \in {"string", Absent}
          /\ deadline \in Times \cup {Absent} /\ now \in 0 .. MaxNow
  BY <1>inv DEF Types
<1>at. ASSUME NEW l, Goto(Loop, l) PROVE at'[Loop] = l
  BY <1>at, <1>inv DEF Goto, Types
<1>1. ASSUME NEW op \in {"get", "set", "del"}, NEW flag \in {"none", "nx", "xx"},
             NEW ex \in {Absent} \cup (1 .. MaxEx), Begin(Loop, op, flag, ex)
      PROVE  Inv'
  BY <1>1, BeginStep
<1>2. CASE IsExpired(Loop)
  <2> DEFINE l == IF Expired THEN "purge" ELSE IF at[Loop] = "first" THEN "second" ELSE "read"
  <2>1. /\ at[Loop] \in {"first", "second"} /\ Goto(Loop, l)
        /\ UNCHANGED <<value, type, deadline, now, cmd, used, crashes>> /\ UNCHANGED ghosts
    BY <1>2 DEF IsExpired, Keep, cells
  <2>2. at'[Loop] = l /\ l \in {"purge", "second", "read"}
    BY <2>1, <1>at
  <2>3. Course'
    BY <2>1, <2>2, <1>inv DEF Course, Puts
  <2>4. Solid'
    <3>1. solid # Absent /\ Live(solid) => ~ Expired
      BY <1>inv DEF Solid, Live, Expired, Types, Times
    <3> QED  BY <2>1, <2>2, <3>1, <1>inv DEF Solid, Drops, Live, ghosts
  <2>5. Fresh'
    <3>1. at'[Loop] = "read" => deadline = Absent \/ cmd[Loop].since < deadline
      BY <2>1, <2>2, <1>inv DEF Expired, Course, Types, Times, CommandSet
    <3> QED  BY <2>1, <2>2, <3>1, <1>inv DEF Fresh, Puts, ghosts
  <2> QED  BY <2>1, <2>2, <2>3, <2>4, <2>5, <1>types, GotoStep DEF Steps, Drops
<1>3. CASE Read(Loop)
  <2>1. at[Loop] = "read" /\ UNCHANGED <<value, type, deadline, now, cmd, used, crashes>>
    BY <1>3 DEF Read, Keep, cells
  <2>2. /\ type # Absent => value # Absent
        /\ value # Absent => value <= used
        /\ crashes = 0 => (value # Absent => type = "string" /\ deadline = until[value])
        /\ solid # Absent /\ Live(solid) => value = solid /\ type = "string" /\ deadline = until[solid]
        /\ cmd[Loop].op \in {"get", "set"}
        /\ crashes = 0 => deadline = Absent \/ cmd[Loop].since < deadline
    BY <2>1, <1>inv DEF Course, Fresh, Solid, Puts
  <2>3. CASE cmd[Loop].op = "get"
    BY <1>3, <2>1, <2>2, <2>3, <1>types, ReturnStep DEF Read
  <2>4. CASE cmd[Loop].op = "set"
    BY <1>3, <2>1, <2>2, <2>4, <1>types, DecideStep DEF Read
  <2> QED  BY <2>2, <2>3, <2>4
<1>4. CASE Tag(Loop)
  <2>1. at[Loop] = "tag" /\ UNCHANGED <<value, type, deadline, now, cmd, used, crashes>>
    BY <1>4 DEF Tag, Keep, cells
  <2>2. CASE Return(Loop, Absent)
    <3>1. /\ type # Absent => value # Absent
          /\ value # Absent => value <= used
          /\ crashes = 0 => (value # Absent => type = "string" /\ deadline = until[value])
          /\ solid # Absent /\ Live(solid) => value = solid /\ type = "string" /\ deadline = until[solid]
      BY <2>1, <1>inv DEF Course, Fresh, Solid, Puts
    <3> QED  BY <2>1, <2>2, <3>1, <1>types, ReturnStep
  <2>3. CASE Goto(Loop, "purge") /\ UNCHANGED ghosts
    <3>1. at'[Loop] = "purge" /\ cmd[Loop].op = "del"
      BY <2>1, <2>3, <1>at, <1>inv DEF Course
    <3>2. Course' /\ Solid' /\ Fresh'
      BY <2>1, <2>3, <3>1, <1>inv DEF Course, Solid, Fresh, Puts, Drops, Live, ghosts
    <3> QED  BY <2>1, <2>3, <3>2, <1>types, GotoStep DEF Steps, Drops
  <2> QED  BY <1>4, <2>2, <2>3 DEF Tag
<1>5. CASE Purge(Loop)
  <2> DEFINE l == IF type = Absent THEN "dropOrphan" ELSE "dropType"
  <2>1. /\ at[Loop] = "purge" /\ Goto(Loop, l)
        /\ UNCHANGED <<value, type, deadline, now, cmd, used, crashes>> /\ UNCHANGED ghosts
    BY <1>5 DEF Purge, Keep, cells
  <2>2. at'[Loop] = l /\ l \in {"dropOrphan", "dropType"} /\ (l = "dropOrphan" => type = Absent)
    BY <2>1, <1>at
  <2>3. Course' /\ Solid' /\ Fresh'
    BY <2>1, <2>2, <1>inv DEF Course, Solid, Fresh, Puts, Drops, Live, ghosts
  <2> QED  BY <2>1, <2>2, <2>3, <1>types, GotoStep DEF Steps, Drops
<1>6. CASE DropOrphan(Loop)
  <2>1. /\ at[Loop] = "dropOrphan" /\ deadline' = Absent /\ Purged(Loop)
        /\ UNCHANGED <<value, type, now, cmd, used, crashes>>
    BY <1>6 DEF DropOrphan, Keep
  <2>2. type = Absent /\ (crashes = 0 => value = Absent)
    BY <2>1, <1>inv DEF Course, Fresh, Puts
  <2> QED  BY <2>1, <2>2, PurgedStep
<1>7. CASE DropType(Loop)
  <2>1. /\ at[Loop] = "dropType" /\ type' = Absent /\ Goto(Loop, "dropDeadline")
        /\ UNCHANGED <<value, deadline, now, cmd, used, crashes>> /\ UNCHANGED ghosts
    BY <1>7 DEF DropType, Keep
  <2>2. at'[Loop] = "dropDeadline"
    BY <2>1, <1>at
  <2>3. Course' /\ Solid' /\ Fresh'
    BY <2>1, <2>2, <1>inv DEF Course, Solid, Fresh, Puts, Drops, Live, ghosts
  <2> QED  BY <2>1, <2>3, <1>types, GotoStep DEF Steps, Drops
<1>8. CASE DropDeadline(Loop)
  <2>1. /\ at[Loop] = "dropDeadline" /\ deadline' = Absent /\ Goto(Loop, "dropValue")
        /\ UNCHANGED <<value, type, now, cmd, used, crashes>> /\ UNCHANGED ghosts
    BY <1>8 DEF DropDeadline, Keep
  <2>2. at'[Loop] = "dropValue"
    BY <2>1, <1>at
  <2>3. Course' /\ Solid' /\ Fresh'
    BY <2>1, <2>2, <1>inv DEF Course, Solid, Fresh, Puts, Drops, Live, ghosts
  <2> QED  BY <2>1, <2>3, <1>types, GotoStep DEF Steps, Drops
<1>9. CASE DropValue(Loop)
  <2>1. /\ at[Loop] = "dropValue" /\ value' = Absent /\ Purged(Loop)
        /\ UNCHANGED <<type, deadline, now, cmd, used, crashes>>
    BY <1>9 DEF DropValue, Keep
  <2>2. type = Absent
    BY <2>1, <1>inv DEF Course
  <2> QED  BY <2>1, <2>2, PurgedStep
<1>10. CASE PutValue(Loop)
  <2>1. /\ at[Loop] = "putValue" /\ value' = cmd[Loop].number /\ Goto(Loop, "putType")
        /\ UNCHANGED <<type, deadline, now, cmd, used, crashes>> /\ UNCHANGED ghosts
    BY <1>10 DEF PutValue, Keep
  <2>2. /\ at'[Loop] = "putType" /\ cmd[Loop].op = "set" /\ solid = Absent
        /\ cmd[Loop].number = used /\ used \in Numbers
    BY <2>1, <1>at, <1>inv DEF Course, Solid, Puts
  <2>3. Course' /\ Solid' /\ Fresh'
    BY <2>1, <2>2, <1>inv DEF Course, Solid, Fresh, Puts, Numbers, ghosts
  <2> QED  BY <2>1, <2>2, <2>3, <1>types, GotoStep DEF Steps, Puts
<1>11. CASE PutType(Loop)
  <2> DEFINE l == IF cmd[Loop].ex # Absent THEN "putDeadline" ELSE "persist"
  <2>1. /\ at[Loop] = "putType" /\ type' = "string" /\ Goto(Loop, l)
        /\ UNCHANGED <<value, deadline, now, cmd, used, crashes>> /\ UNCHANGED ghosts
    BY <1>11 DEF PutType, Keep
  <2>2. /\ at'[Loop] = l /\ l \in {"putDeadline", "persist"} /\ (l = "putDeadline" => cmd[Loop].ex # Absent)
        /\ cmd[Loop].op = "set" /\ solid = Absent /\ value = cmd[Loop].number /\ value \in Numbers
    BY <2>1, <1>at, <1>inv DEF Course, Solid, Puts
  <2>3. Course' /\ Solid' /\ Fresh'
    BY <2>1, <2>2, <1>inv DEF Course, Solid, Fresh, Puts, Numbers, ghosts
  <2> QED  BY <2>1, <2>2, <2>3, <1>types, GotoStep DEF Steps, Puts
<1>12. CASE PutDeadline(Loop)
  <2>1. /\ at[Loop] = "putDeadline" /\ deadline' = now + cmd[Loop].ex
        /\ Acknowledge(Loop, now + cmd[Loop].ex)
        /\ UNCHANGED <<value, type, now, cmd, used, crashes>>
    BY <1>12 DEF PutDeadline, Keep
  <2>2. now + cmd[Loop].ex \in Times
    BY <2>1, <1>inv DEF Course, Types, CommandSet, Times
  <2> QED  BY <2>1, <2>2, AcknowledgeStep
<1>13. CASE Persist(Loop)
  <2>1. at[Loop] = "persist" /\ UNCHANGED <<value, type, deadline, now, cmd, used, crashes>>
    BY <1>13 DEF Persist, Keep, cells
  <2>2. CASE deadline = Absent
    BY <1>13, <2>1, <2>2, AcknowledgeStep DEF Persist
  <2>3. CASE deadline # Absent
    <3>1. Goto(Loop, "unset") /\ UNCHANGED ghosts
      BY <1>13, <2>3 DEF Persist
    <3>2. at'[Loop] = "unset" /\ cmd[Loop].op = "set"
      BY <2>1, <3>1, <1>at, <1>inv DEF Course, Puts
    <3>3. Course' /\ Solid' /\ Fresh'
      BY <2>1, <3>1, <3>2, <1>inv DEF Course, Solid, Fresh, Puts, ghosts
    <3> QED  BY <2>1, <3>1, <3>3, <1>types, GotoStep DEF Steps, Puts
  <2> QED  BY <2>2, <2>3
<1>14. CASE Unset(Loop)
  <2>1. /\ at[Loop] = "unset" /\ deadline' = Absent /\ Acknowledge(Loop, Absent)
        /\ UNCHANGED <<value, type, now, cmd, used, crashes>>
    BY <1>14 DEF Unset, Keep
  <2> QED  BY <2>1, AcknowledgeStep
<1>15. CASE Tick
  <2>1. /\ now < MaxNow /\ now' = now + 1
        /\ UNCHANGED <<value, type, deadline, at, cmd, used, crashes, until, alone, solid, got>>
    BY <1>15 DEF Tick, cells, ghosts
  <2>2. Types'
    BY <2>1, <1>inv DEF Types
  <2>3. Course' /\ Fresh'
    BY <2>1, <1>inv DEF Course, Fresh, Types, CommandSet
  <2>4. solid # Absent /\ Live(solid)' => Live(solid)
    BY <2>1, <1>inv DEF Live, Types, Times
  <2>5. Solid'
    BY <2>1, <2>4, <1>inv DEF Solid
  <2> QED  BY <2>2, <2>3, <2>5 DEF Inv
<1>16. CASE Crash
  <2>1. /\ crashes' = crashes + 1 /\ at' = [c \in Clients |-> "idle"] /\ at'[Loop] = "idle"
        /\ UNCHANGED <<value, type, deadline, now, cmd, used, until, alone, solid, got>>
    BY <1>16 DEF Crash, cells, ghosts
  <2>2. Types'
    BY <2>1, <1>inv DEF Types, Steps
  <2>3. Course' /\ Solid'
    BY <2>1, <1>inv DEF Course, Solid, Live, Puts, Drops
  <2>4. Fresh'
    BY <2>1, <1>inv DEF Fresh, Types
  <2> QED  BY <2>2, <2>3, <2>4 DEF Inv
<1>17. CASE UNCHANGED vars
  BY <1>17 DEF vars, cells, ghosts, Inv, Types, Course, Solid, Fresh, Live
<1> QED
  BY <1>1, <1>2, <1>3, <1>4, <1>5, <1>6, <1>7, <1>8, <1>9, <1>10, <1>11, <1>12, <1>13, <1>14, <1>15, <1>16, <1>17
  DEF Next

-----------------------------------------------------------------------------
(* The theorems *)

LEMMA Inductive == ASSUME Clients = {Loop} PROVE Spec => []Inv
<1>1. Init => Inv
  BY InvInit
<1>2. Inv /\ [Next]_vars => Inv'
  BY InvStep
<1> QED  BY <1>1, <1>2, PTL DEF Spec

\* Over TCP a SET that returned is there with its type and its deadline until
\* the next writer comes or its time is up, and a crash does not change that:
\* no reader purges it (kv.py set, get).
THEOREM SetRemains == ASSUME Clients = {Loop} PROVE Spec => []SetStays
<1>1. Inv => SetStays
  BY DEF Inv, Solid, SetStays, Live
<1> QED  BY <1>1, Inductive, PTL

\* Over TCP no GET answers with a value whose time was up, unless a crash has
\* cut a command short (kv.py get, _is_expired).
THEOREM AnswersFresh == ASSUME Clients = {Loop} PROVE Spec => []NoStaleAnswer
<1>1. Inv => NoStaleAnswer
  BY DEF Inv, Fresh, NoStaleAnswer
<1> QED  BY <1>1, Inductive, PTL

\* Over TCP a key between commands has a value if it has a type, whatever
\* crashes came before, and a type if it has a value and none came (kv.py
\* exists, get).
THEOREM ValueHasType == ASSUME Clients = {Loop} PROVE Spec => []TypeAndValue
<1>1. Inv => TypeAndValue
  BY StringAssumption DEF Inv, Course, Fresh, TypeAndValue, Puts
<1> QED  BY <1>1, Inductive, PTL

\* Over TCP a SET NX overwrites no live value (kv.py set).
THEOREM NxKeepsLive == ASSUME Clients = {Loop} PROVE Spec => NxKeeps
<1>1. Inv => \A c \in Clients :
          at[c] = "putValue" /\ at'[c] = "putType" /\ cmd[c].flag = "nx"
            => value = Absent \/ type = Absent \/ Expired
  BY DEF Inv, Course
<1> QED  BY <1>1, Inductive, PTL DEF NxKeeps

-----------------------------------------------------------------------------
(* Types, whatever clients there are *)

\* A command under way has a number, and one at expire() an EX.
Numbered ==
    \A c \in Clients : at[c] # "idle" =>
        /\ cmd[c].number \in Numbers
        /\ at[c] = "putDeadline" => cmd[c].ex # Absent

Typed == Types /\ Numbered

LEMMA TypedBegin ==
    ASSUME Typed, NEW c \in Clients, NEW op \in {"get", "set", "del"},
           NEW flag \in {"none", "nx", "xx"}, NEW ex \in {Absent} \cup (1 .. MaxEx),
           Begin(c, op, flag, ex)
    PROVE  Typed'
<1> USE StringAssumption
<1> DEFINE d == [op |-> op, number |-> used + 1, flag |-> flag, ex |-> ex, since |-> now]
<1>1. /\ used < MaxCommands /\ used' = used + 1
      /\ cmd' = [cmd EXCEPT ![c] = d]
      /\ \E l \in {"first", "second", "tag"} : at' = [at EXCEPT ![c] = l]
      /\ UNCHANGED <<value, type, deadline, now, crashes, until, got>>
      /\ alone' \subseteq Clients /\ solid' \in Numbers \cup {Absent}
  <2>1. (CASE op = "get" -> "second" [] op = "set" -> "first" [] op = "del" -> "tag")
            \in {"first", "second", "tag"}
    OBVIOUS
  <2> QED  BY <2>1 DEF Begin, Goto, cells, Typed, Types
<1>2. d \in CommandSet /\ d.number \in Numbers
  BY <1>1 DEF Typed, Types, CommandSet, Numbers
<1> HIDE DEF d
<1>3. Types'
  BY <1>1, <1>2 DEF Typed, Types, Steps
<1>4. Numbered'
  BY <1>1, <1>2 DEF Typed, Types, Numbered
<1> QED  BY <1>3, <1>4 DEF Typed

LEMMA TypedReturn ==
    ASSUME Typed, NEW c \in Clients, NEW a \in Numbers \cup {Absent}, Return(c, a), Keep,
           value' \in Numbers \cup {Absent}, type' \in {"string", Absent},
           deadline' \in Times \cup {Absent}
    PROVE  Typed'
<1>1. /\ at' = [at EXCEPT ![c] = "idle"] /\ UNCHANGED <<now, cmd, used, crashes, until, alone, solid>>
      /\ \A g \in got' : g.answer \in Numbers \cup {Absent}
  <2>1. at' = [at EXCEPT ![c] = "idle"] /\ UNCHANGED <<now, cmd, used, crashes, until, alone, solid>>
    BY DEF Return, Goto, Keep
  <2>2. \A g \in got' : g \in got \/ g = [answer |-> a, since |-> cmd[c].since]
    BY DEF Return
  <2> QED  BY <2>1, <2>2 DEF Typed, Types
<1>2. Types'
  BY <1>1 DEF Typed, Types, Steps
<1>3. Numbered'
  BY <1>1 DEF Typed, Types, Numbered
<1> QED  BY <1>2, <1>3 DEF Typed

LEMMA TypedAcknowledge ==
    ASSUME Typed, NEW c \in Clients, NEW u \in Times \cup {Absent}, Acknowledge(c, u), Keep,
           at[c] # "idle", UNCHANGED <<value, type>>, deadline' \in Times \cup {Absent}
    PROVE  Typed'
<1>1. /\ at' = [at EXCEPT ![c] = "idle"] /\ UNCHANGED <<now, cmd, used, crashes, alone, got>>
      /\ until' = [until EXCEPT ![cmd[c].number] = u]
      /\ cmd[c].number \in Numbers /\ solid' \in {solid, cmd[c].number}
  BY DEF Acknowledge, Goto, Keep, Typed, Numbered
<1>2. Types'
  BY <1>1 DEF Typed, Types, Steps
<1>3. Numbered'
  BY <1>1 DEF Typed, Types, Numbered
<1> QED  BY <1>2, <1>3 DEF Typed

LEMMA TypedGoto ==
    ASSUME Typed, NEW c \in Clients, NEW l \in Steps, Goto(c, l), Keep, UNCHANGED ghosts,
           at[c] # "idle", l = "putDeadline" => cmd[c].ex # Absent,
           value' \in Numbers \cup {Absent}, type' \in {"string", Absent},
           deadline' \in Times \cup {Absent}
    PROVE  Typed'
<1>1. at' = [at EXCEPT ![c] = l]
      /\ UNCHANGED <<now, cmd, used, crashes, until, alone, solid, got>>
  BY DEF Goto, Keep, ghosts
<1>2. Types'
  BY <1>1 DEF Typed, Types
<1>3. Numbered'
  BY <1>1 DEF Typed, Types, Numbered
<1> QED  BY <1>2, <1>3 DEF Typed

LEMMA TypedDecide ==
    ASSUME Typed, NEW c \in Clients, NEW found \in BOOLEAN, Decide(c, found), Keep,
           at[c] # "idle",
           value' \in Numbers \cup {Absent}, type' \in {"string", Absent},
           deadline' \in Times \cup {Absent}
    PROVE  Typed'
<1>1. CASE Return(c, Absent)
  BY <1>1, TypedReturn
<1>2. CASE Goto(c, "putValue") /\ UNCHANGED ghosts
  <2>1. "putValue" \in Steps /\ "putValue" # "putDeadline"
    BY DEF Steps, Puts
  <2> QED  BY <1>2, <2>1, TypedGoto
<1> QED  BY <1>1, <1>2 DEF Decide

LEMMA TypedPurged ==
    ASSUME Typed, NEW c \in Clients, Purged(c), Keep, at[c] # "idle",
           value' \in Numbers \cup {Absent}, type' \in {"string", Absent},
           deadline' \in Times \cup {Absent}
    PROVE  Typed'
BY TypedReturn, TypedDecide DEF Purged

LEMMA TypedStep == ASSUME Typed, [Next]_vars PROVE Typed'
<1> USE StringAssumption
<1>typ. /\ value \in Numbers \cup {Absent} /\ type \in {"string", Absent}
        /\ deadline \in Times \cup {Absent} /\ now \in 0 .. MaxNow
        /\ Absent \in Numbers \cup {Absent} /\ Absent \in Times \cup {Absent}
        /\ \A c \in Clients : cmd[c].ex \in 0 .. MaxEx \cup {Absent}
  BY DEF Typed, Types, CommandSet
<1>lab. {"idle", "purge", "second", "read", "dropOrphan", "dropType", "dropDeadline", "dropValue",
         "putValue", "putType", "putDeadline", "persist", "unset"} \subseteq Steps
  BY DEF Steps, Drops, Puts
<1>1. ASSUME NEW c \in Clients,
             \/ Begin(c, "get", "none", Absent) \/ Begin(c, "del", "none", Absent)
             \/ \E flag \in {"none", "nx", "xx"}, ex \in {Absent} \cup (1 .. MaxEx) :
                    Begin(c, "set", flag, ex)
      PROVE  Typed'
  BY <1>1, TypedBegin
<1>2. ASSUME NEW c \in Clients, IsExpired(c) PROVE Typed'
  <2> DEFINE l == IF Expired THEN "purge" ELSE IF at[c] = "first" THEN "second" ELSE "read"
  <2>1. Goto(c, l) /\ Keep /\ UNCHANGED ghosts /\ UNCHANGED <<value, type, deadline>> /\ at[c] # "idle"
    BY <1>2 DEF IsExpired, cells
  <2>2. l \in Steps /\ l # "putDeadline"
    BY <1>lab
  <2> HIDE DEF l
  <2> QED  BY <2>1, <2>2, <1>typ, TypedGoto
<1>3. ASSUME NEW c \in Clients, Read(c) PROVE Typed'
  <2>1. /\ Return(c, value) \/ Decide(c, value # Absent)
        /\ Keep /\ UNCHANGED <<value, type, deadline>> /\ at[c] # "idle"
    BY <1>3 DEF Read, cells
  <2>2. (value # Absent) \in BOOLEAN
    OBVIOUS
  <2>3. CASE Return(c, value)
    BY <2>1, <2>3, <1>typ, TypedReturn
  <2>4. CASE Decide(c, value # Absent)
    BY <2>1, <2>2, <2>4, <1>typ, TypedDecide
  <2> QED  BY <2>1, <2>3, <2>4
<1>4. ASSUME NEW c \in Clients, Tag(c) PROVE Typed'
  <2>1. /\ Return(c, Absent) \/ (Goto(c, "purge") /\ UNCHANGED ghosts)
        /\ Keep /\ UNCHANGED <<value, type, deadline>> /\ at[c] # "idle"
    BY <1>4 DEF Tag, cells
  <2>2. CASE Return(c, Absent)
    BY <2>1, <2>2, <1>typ, TypedReturn
  <2>3. CASE Goto(c, "purge") /\ UNCHANGED ghosts
    BY <2>1, <2>3, <1>typ, <1>lab, TypedGoto
  <2> QED  BY <2>1, <2>2, <2>3
<1>5. ASSUME NEW c \in Clients, Purge(c) PROVE Typed'
  <2> DEFINE l == IF type = Absent THEN "dropOrphan" ELSE "dropType"
  <2>1. Goto(c, l) /\ Keep /\ UNCHANGED ghosts /\ UNCHANGED <<value, type, deadline>> /\ at[c] # "idle"
    BY <1>5 DEF Purge, cells
  <2>2. l \in Steps /\ l # "putDeadline"
    BY <1>lab
  <2> HIDE DEF l
  <2> QED  BY <2>1, <2>2, <1>typ, TypedGoto
<1>6. ASSUME NEW c \in Clients, DropOrphan(c) \/ DropValue(c) PROVE Typed'
  <2>1. /\ Purged(c) /\ Keep /\ at[c] # "idle" /\ value' \in {value, Absent}
        /\ type' = type /\ deadline' \in {deadline, Absent}
    BY <1>6 DEF DropOrphan, DropValue
  <2> QED  BY <2>1, <1>typ, TypedPurged
<1>7. ASSUME NEW c \in Clients, DropType(c) \/ DropDeadline(c) PROVE Typed'
  <2>1. /\ Keep /\ UNCHANGED ghosts /\ at[c] # "idle" /\ value' = value
        /\ type' \in {type, Absent} /\ deadline' \in {deadline, Absent}
        /\ Goto(c, "dropDeadline") \/ Goto(c, "dropValue")
    BY <1>7 DEF DropType, DropDeadline
  <2> QED  BY <2>1, <1>typ, <1>lab, TypedGoto
<1>8. ASSUME NEW c \in Clients, PutValue(c) PROVE Typed'
  <2>1. /\ Keep /\ UNCHANGED ghosts /\ at[c] # "idle" /\ value' = cmd[c].number
        /\ type' = type /\ deadline' = deadline /\ Goto(c, "putType")
    BY <1>8 DEF PutValue
  <2>2. cmd[c].number \in Numbers
    BY <2>1 DEF Typed, Numbered
  <2> QED  BY <2>1, <2>2, <1>typ, <1>lab, TypedGoto
<1>9. ASSUME NEW c \in Clients, PutType(c) PROVE Typed'
  <2> DEFINE l == IF cmd[c].ex # Absent THEN "putDeadline" ELSE "persist"
  <2>1. /\ Keep /\ UNCHANGED ghosts /\ at[c] # "idle" /\ type' = "string"
        /\ value' = value /\ deadline' = deadline /\ Goto(c, l)
    BY <1>9 DEF PutType
  <2>2. l \in Steps /\ (l = "putDeadline" => cmd[c].ex # Absent)
    BY <1>lab
  <2> HIDE DEF l
  <2> QED  BY <2>1, <2>2, <1>typ, TypedGoto
<1>10. ASSUME NEW c \in Clients, PutDeadline(c) PROVE Typed'
  <2>1. /\ at[c] = "putDeadline" /\ Keep /\ UNCHANGED <<value, type>>
        /\ deadline' = now + cmd[c].ex /\ Acknowledge(c, now + cmd[c].ex)
    BY <1>10 DEF PutDeadline
  <2>2. now + cmd[c].ex \in Times
    BY <2>1, <1>typ DEF Typed, Numbered, Times
  <2> QED  BY <2>1, <2>2, TypedAcknowledge
<1>11. ASSUME NEW c \in Clients, Persist(c) PROVE Typed'
  <2>1. /\ Acknowledge(c, Absent) \/ (Goto(c, "unset") /\ UNCHANGED ghosts)
        /\ Keep /\ UNCHANGED <<value, type, deadline>> /\ at[c] # "idle"
    BY <1>11 DEF Persist, cells
  <2>2. CASE Acknowledge(c, Absent)
    BY <2>1, <2>2, <1>typ, TypedAcknowledge
  <2>3. CASE Goto(c, "unset") /\ UNCHANGED ghosts
    BY <2>1, <2>3, <1>typ, <1>lab, TypedGoto
  <2> QED  BY <2>1, <2>2, <2>3
<1>12. ASSUME NEW c \in Clients, Unset(c) PROVE Typed'
  <2>1. at[c] # "idle" /\ Keep /\ UNCHANGED <<value, type>> /\ deadline' = Absent /\ Acknowledge(c, Absent)
    BY <1>12 DEF Unset
  <2> QED  BY <2>1, <1>typ, TypedAcknowledge
<1>13. CASE Tick
  BY <1>13 DEF Tick, Typed, Types, Numbered, cells, ghosts
<1>14. CASE Crash
  <2>1. /\ at' = [c \in Clients |-> "idle"] /\ crashes' = crashes + 1
        /\ UNCHANGED <<value, type, deadline, now, cmd, used, until, alone, solid, got>>
    BY <1>14 DEF Crash, cells, ghosts
  <2> QED  BY <2>1, <1>lab DEF Typed, Types, Numbered
<1>15. CASE UNCHANGED vars
  BY <1>15 DEF vars, cells, ghosts, Typed, Types, Numbered
<1> QED
  BY <1>1, <1>2, <1>3, <1>4, <1>5, <1>6, <1>7, <1>8, <1>9, <1>10, <1>11, <1>12, <1>13, <1>14, <1>15
  DEF Next

\* The cells of a key, its deadline, the clock and the answers keep their
\* types, whatever clients read, write, purge and die beside each other
\* (kv.py get, set, delete).
THEOREM TypesHold == Spec => []TypeOK
<1>1. Init => Typed
  <2> SUFFICES ASSUME Init PROVE Typed
    OBVIOUS
  <2>1. Types
    BY StringAssumption DEF Init, Types, Steps, Times, CommandSet, NoCommand, Numbers
  <2>2. Numbered
    BY DEF Init, Numbered
  <2> QED  BY <2>1, <2>2 DEF Typed
<1>2. Typed /\ [Next]_vars => Typed'
  BY TypedStep
<1>3. Typed => TypeOK
  BY DEF Typed, Types, TypeOK, Times
<1> QED  BY <1>1, <1>2, <1>3, PTL DEF Spec

=============================================================================
