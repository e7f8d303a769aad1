----------------------------- MODULE FormProofs -----------------------------
(***************************************************************************)
(* Theorems about the mapping dialog, for any nodes, ports, patterns and   *)
(* intervals, and any number of edits and requests.  Three facts carry     *)
(* them: what the server holds it once accepted; a single mapping never    *)
(* has two nodes chosen, whatever is clicked; and fields that were left    *)
(* alone, like the request made of them, still hold what the dialog was    *)
(* opened with.                                                            *)
(***************************************************************************)
EXTENDS MappingForm, TLAPS, SequenceTheorems, WellFoundedInduction

-----------------------------------------------------------------------------
(* Least elements, and sequences with an element taken out *)

\* A set of naturals that is not empty has a least element.
LEMMA LeastOf ==
  ASSUME NEW S \in SUBSET Nat, S # {}
  PROVE  \E x \in S : \A y \in S : x <= y
<1>1. PICK x \in S : \A y \in S : <<y, x>> \notin OpToRel(<, Nat)
  BY NatLessThanWellFounded, WFMin
<1>2. \A y \in S : ~(y < x)
  BY <1>1 DEF OpToRel
<1> QED
  BY <1>2

\* Taking an element out of a sequence leaves a sequence that is no longer.  Instead
\* of an induction, the least index at which a table of the prefixes fails is refuted.
LEMMA WithoutType ==
  ASSUME NEW S, NEW value \in Seq(S), NEW node
  PROVE  /\ Without(value, node) \in Seq(S)
         /\ Len(Without(value, node)) <= Len(value)
<1> DEFINE n == Len(value)
           Below(f, i) == IF i = 0 THEN <<>>
                          ELSE IF value[i] = node THEN f[i - 1]
                          ELSE Append(f[i - 1], value[i])
           Table(f, m) == f = [i \in 0 .. m |-> Below(f, i)]
           left == CHOOSE f : Table(f, n)
<1>0. n \in Nat /\ \A i \in 1 .. n : value[i] \in S
  OBVIOUS
<1>1. Without(value, node) = left[n]
  BY DEF Without
\* There is such a table of any length, ...
<1>2. \A m \in 0 .. n : \E f : Table(f, m)
  <2> DEFINE B == {m \in 0 .. n : ~ \E f : Table(f, m)}
  <2> SUFFICES ASSUME B # {}
               PROVE  FALSE
    OBVIOUS
  <2> HIDE DEF Below
  <2>1. PICK m \in B : \A k \in B : m <= k
    <3>1. B \in SUBSET Nat
      BY <1>0
    <3> QED
      BY <3>1, LeastOf
  <2>2. m # 0
    <3>1. Table([i \in 0 .. 0 |-> <<>>], 0)
      BY DEF Below
    <3> QED
      BY <3>1, <2>1
  <2>3. m \in Nat /\ m - 1 \in 0 .. n /\ m \in 1 .. n /\ ~ (m <= m - 1)
    BY <1>0, <2>1, <2>2
  <2>4. PICK f : Table(f, m - 1)
    BY <2>1, <2>3
  <2> DEFINE g == [i \in 0 .. m |-> IF i = m THEN Below(f, m) ELSE f[i]]
  <2>5. \A i \in 0 .. m : g[i] = Below(g, i)
    <3> SUFFICES ASSUME NEW i \in 0 .. m
                 PROVE  g[i] = Below(g, i)
      OBVIOUS
    <3>1. i # 0 => i - 1 \in 0 .. m /\ i - 1 # m
      BY <2>3
    <3>2. i # 0 => g[i - 1] = f[i - 1]
      BY <3>1
    <3>3. Below(g, i) = Below(f, i)
      BY <3>2 DEF Below
    <3>4. CASE i = m
      BY <3>3, <3>4
    <3>5. CASE i # m
      <4>1. i \in 0 .. (m - 1)
        BY <3>5, <2>3
      <4>2. f[i] = Below(f, i)
        BY <2>4, <4>1
      <4> QED
        BY <3>3, <3>5, <4>2
    <3> QED
      BY <3>4, <3>5
  <2>6. Table(g, m)
    <3> DEFINE h == [i \in 0 .. m |-> Below(g, i)]
    <3>1. g = h
      BY <2>5
    <3> QED
      BY <3>1
  <2> QED
    BY <2>1, <2>6
\* ... the one of the definition is one, ...
<1>3. Table(left, n)
  <2>1. \E f : Table(f, n)
    BY <1>0, <1>2
  <2> QED
    BY <2>1
\* ... and no entry is the first that goes wrong.
<1>4. \A m \in 0 .. n : left[m] \in Seq(S) /\ Len(left[m]) <= m
  <2> DEFINE B == {m \in 0 .. n : ~(left[m] \in Seq(S) /\ Len(left[m]) <= m)}
  <2> SUFFICES ASSUME B # {}
               PROVE  FALSE
    OBVIOUS
  <2>1. \A m \in 0 .. n : left[m] = Below(left, m)
    BY <1>3
  <2> HIDE DEF left
  <2>2. PICK m \in B : \A k \in B : m <= k
    <3>1. B \in SUBSET Nat
      BY <1>0
    <3> QED
      BY <3>1, LeastOf
  <2>3. CASE m = 0
    <3>1. left[m] = <<>>
      BY <2>1, <2>2, <2>3
    <3>2. <<>> \in Seq(S) /\ Len(<<>>) = 0
      OBVIOUS
    <3> QED
      BY <3>1, <3>2, <2>2, <2>3
  <2>4. CASE m # 0
    <3>1. m \in Nat /\ m - 1 \in 0 .. n /\ m \in 1 .. n /\ ~ (m <= m - 1)
      BY <1>0, <2>2, <2>4
    <3>2. left[m - 1] \in Seq(S) /\ Len(left[m - 1]) <= m - 1
      BY <2>2, <3>1
    <3>3. left[m] = left[m - 1] \/ left[m] = Append(left[m - 1], value[m])
      BY <2>1, <2>4, <3>1
    <3>4. /\ Append(left[m - 1], value[m]) \in Seq(S)
          /\ Len(Append(left[m - 1], value[m])) = Len(left[m - 1]) + 1
          /\ Len(left[m - 1]) \in Nat
      BY <1>0, <3>1, <3>2
    <3>5. Len(left[m]) <= m
      BY <3>1, <3>2, <3>3, <3>4
    <3> QED
      BY <2>2, <3>2, <3>3, <3>4, <3>5
  <2> QED
    BY <2>3, <2>4
<1> QED
  BY <1>0, <1>1, <1>4

-----------------------------------------------------------------------------
(* The invariants *)

Groups == {"name", "port", "strategy", "mode", "nodes", "filter", "check", "auth"}

\* Whatever the server or the page holds, the server accepted.
HeldInv ==
  /\ stored # Absent => Held(stored)
  /\ row # Absent => Held(row)
  /\ editing # Absent => Held(editing)

\* A single mapping has no second node to choose from.
ChoiceInv == form.strategy = "single" => Len(form.selected) <= 1

\* The fields the user left alone hold what the dialog was opened with.
Untouched(m) ==
  /\ "name" \notin touched => form.name = m.name
  /\ "port" \notin touched => form.port = m.port
  /\ "strategy" \notin touched => form.strategy = m.strategy
  /\ touched \cap {"mode", "nodes", "filter", "strategy"} = {} =>
       /\ form.mode = IF m.filter # NoPattern THEN "filter" ELSE "nodes"
       /\ form.selected = IF m.filter # NoPattern THEN <<>> ELSE m.nodes
       /\ form.filter = m.filter
  /\ touched \cap {"check", "strategy"} = {} =>
       /\ form.interval = IF m.interval = NoCheck THEN DefaultInterval ELSE m.interval
       /\ form.url = IF m.url = NoCheck THEN DefaultUrl ELSE m.url
  /\ "auth" \notin touched => form.user = m.user /\ form.pass = m.pass

FieldsInv == editing # Absent => Untouched(editing)

\* A request differs from the mapping its dialog was opened with only in what the user
\* touched, and in what submit makes of the rest.
Follows(p) ==
  /\ p.in.port = 0 => "port" \in p.touched
  /\ \A f \in DOMAIN p.of :
       p.in[f] # p.of[f] =>
         \/ Affected(p.touched, f)
         \/ p.in[f] = Cleaned(f, p.of[f])

SentInv ==
  payload # Absent =>
    /\ payload.in \in MappingType
    /\ CheckFits(payload.in)
    /\ payload.of # Absent => Held(payload.of) /\ Follows(payload)

FormInv == FormTypeOK /\ HeldInv /\ ChoiceInv /\ FieldsInv /\ SentInv

-----------------------------------------------------------------------------
(* The operators *)

\* The picker: a click gives a sequence of nodes again, of one at most in a single
\* mapping.
LEMMA ToggledType ==
  ASSUME NEW value \in Seq(Nodes), NEW node \in Nodes, NEW single \in BOOLEAN
  PROVE  /\ Toggled(value, node, single) \in Seq(Nodes)
         /\ single => Len(Toggled(value, node, single)) <= 1
BY WithoutType DEF Toggled

LEMMA MovedType ==
  ASSUME NEW value \in Seq(Nodes), NEW i \in DOMAIN value, NEW dir \in {-1, 1}
  PROVE  Moved(value, i, dir) \in Seq(Nodes)
<1>1. CASE i + dir \in DOMAIN value
  <2> DEFINE once == [value EXCEPT ![i] = value[i + dir]]
  <2>1. value[i] \in Nodes /\ value[i + dir] \in Nodes
    BY <1>1
  <2>2. once \in Seq(Nodes) /\ Len(once) = Len(value) /\ i + dir \in 1 .. Len(once)
    BY <1>1, <2>1, ExceptSeq
  <2>3. [once EXCEPT ![i + dir] = value[i]] \in Seq(Nodes)
    BY <2>1, <2>2, ExceptSeq
  <2>4. Moved(value, i, dir) = [once EXCEPT ![i + dir] = value[i]]
    BY <1>1 DEF Moved
  <2> QED
    BY <2>3, <2>4
<1>2. CASE i + dir \notin DOMAIN value
  BY <1>2 DEF Moved
<1> QED
  BY <1>1, <1>2

LEMMA FirstOnlyType ==
  ASSUME NEW value \in Seq(Nodes)
  PROVE  FirstOnly(value) \in Seq(Nodes) /\ Len(FirstOnly(value)) <= 1
BY DEF FirstOnly

LEMMA BlankType == Blank \in FormType /\ Len(Blank.selected) = 0
<1>1. Blank \in FormType
  <2>1. DefaultInterval \in Intervals /\ "" \in Texts /\ DefaultUrl \in Texts
    BY FormAssumption DEF Texts
  <2>2. "single" \in Strategies /\ <<>> \in Seq(Nodes)
    BY DEF Strategies
  <2> QED
    BY <2>1, <2>2 DEF Blank, FormType
<1>2. Blank.selected = <<>>
  BY DEF Blank
<1>3. Len(<<>>) = 0
  OBVIOUS
<1> QED
  BY <1>1, <1>2, <1>3

LEMMA FieldsType ==
  ASSUME NEW m \in MappingType \cup {Absent}
  PROVE  FieldsOf(m) \in FormType
<1>1. CASE m = Absent
  BY <1>1, BlankType DEF FieldsOf
<1>2. CASE m # Absent
  <2>1. m \in MappingType
    BY <1>2
  <2>2. /\ m.name \in Texts /\ m.port \in Nat /\ m.strategy \in Strategies
        /\ m.nodes \in Seq(Nodes) /\ m.filter \in Patterns \cup {NoPattern}
        /\ m.interval \in Intervals \cup {NoCheck} /\ m.url \in Texts \cup {NoCheck}
        /\ m.user \in {"", "good", "bad"} /\ m.pass \in {"", "set"}
    BY <2>1 DEF MappingType
  <2>3. /\ (IF m.interval = NoCheck THEN DefaultInterval ELSE m.interval) \in Intervals
        /\ (IF m.url = NoCheck THEN DefaultUrl ELSE m.url) \in Texts
    BY <2>2, FormAssumption DEF Texts
  <2>4. (IF m.filter # NoPattern THEN <<>> ELSE m.nodes) \in Seq(Nodes)
    <3>1. <<>> \in Seq(Nodes) /\ m.nodes \in Seq(Nodes)
      BY <2>2, EmptySeq
    <3>2. CASE m.filter # NoPattern
      BY <3>1, <3>2
    <3>3. CASE m.filter = NoPattern
      BY <3>1, <3>3
    <3> QED
      BY <3>2, <3>3
  <2>5. (IF m.filter # NoPattern THEN "filter" ELSE "nodes") \in {"nodes", "filter"}
    OBVIOUS
  <2> DEFINE mode == IF m.filter # NoPattern THEN "filter" ELSE "nodes"
             selected == IF m.filter # NoPattern THEN <<>> ELSE m.nodes
             interval == IF m.interval = NoCheck THEN DefaultInterval ELSE m.interval
             url == IF m.url = NoCheck THEN DefaultUrl ELSE m.url
  <2>6. FieldsOf(m) = [name |-> m.name, port |-> m.port, strategy |-> m.strategy,
          mode |-> mode, selected |-> selected, filter |-> m.filter,
          interval |-> interval, url |-> url, hcOpen |-> FALSE,
          user |-> m.user, pass |-> m.pass]
    BY <1>2 DEF FieldsOf
  <2> HIDE DEF mode, selected, interval, url
  <2>7. mode \in {"nodes", "filter"} /\ selected \in Seq(Nodes) /\ interval \in Intervals
        /\ url \in Texts
    BY <2>3, <2>4, <2>5 DEF mode, selected, interval, url
  <2> QED
    <3>1. /\ m.port \in Nat \cup {NoNumber} /\ FALSE \in BOOLEAN
          /\ m.name \in Texts /\ m.strategy \in Strategies
          /\ m.filter \in Patterns \cup {NoPattern}
          /\ m.user \in {"", "good", "bad"} /\ m.pass \in {"", "set"}
      BY <2>2
    <3> DEFINE r(nm, pt, st, fl, us, pw) ==
          [name |-> nm, port |-> pt, strategy |-> st, mode |-> mode, selected |-> selected,
           filter |-> fl, interval |-> interval, url |-> url, hcOpen |-> FALSE,
           user |-> us, pass |-> pw]
    <3>2. ASSUME NEW nm \in Texts, NEW pt \in Nat \cup {NoNumber}, NEW st \in Strategies,
                 NEW fl \in Patterns \cup {NoPattern},
                 NEW us \in {"", "good", "bad"}, NEW pw \in {"", "set"}
          PROVE  r(nm, pt, st, fl, us, pw) \in FormType
      BY <2>7 DEF FormType
    <3> HIDE DEF r
    <3>3. r(m.name, m.port, m.strategy, m.filter, m.user, m.pass) \in FormType
      BY <3>1, <3>2
    <3> QED
      BY <2>6, <3>3 DEF r
<1> QED
  BY <1>1, <1>2

\* The mapping the server makes of a request it accepts is the request with a port.
LEMMA BuildHeld ==
  ASSUME NEW in \in MappingType, Accepts(in), CheckFits(in)
  PROVE  /\ Held(Build(in))
         /\ in.port # 0 => Build(in) = in
         /\ DOMAIN Build(in) = DOMAIN in
         /\ \A f \in DOMAIN in : f # "port" => Build(in)[f] = in[f]
<1>1. CASE in.port # 0
  BY <1>1 DEF Held, Build
<1>2. CASE in.port = 0
  <2> DEFINE free == CHOOSE p \in FreePorts : \A q \in FreePorts : p <= q
  <2>1. FreePorts # {} /\ FreePorts \in SUBSET Nat
    BY <1>2, FormAssumption DEF Accepts, PortFine, FreePorts
  <2>2. \E p \in FreePorts : \A q \in FreePorts : p <= q
    BY <2>1, LeastOf
  <2>3. free \in FreePorts
    BY <2>2
  <2> HIDE DEF free
  <2>4. free \in Nat /\ free # 0 /\ free \in PortLo .. PortHi /\ free \notin TakenPorts
    <3>1. PortLo \in Nat \ {0} /\ PortHi \in Nat
      BY FormAssumption
    <3> QED
      BY <2>3, <3>1 DEF FreePorts
  <2> DEFINE m == [in EXCEPT !.port = free]
  <2>5. Build(in) = m
    BY <1>2 DEF Build, free
  <2>6. m \in MappingType /\ m.port = free
    BY <2>4 DEF MappingType
  <2>7. DOMAIN m = DOMAIN in /\ \A f \in DOMAIN in : f # "port" => m[f] = in[f]
    BY DEF MappingType
  <2>8. /\ m.strategy = in.strategy /\ m.nodes = in.nodes /\ m.filter = in.filter
        /\ m.interval = in.interval /\ m.url = in.url
        /\ m.user = in.user /\ m.pass = in.pass
    BY DEF MappingType
  <2> HIDE DEF m
  <2>9. PortFine(m)
    BY <2>4, <2>6 DEF PortFine
  <2>10. Accepts(m)
    BY <2>8, <2>9 DEF Accepts, SetFine, AuthFine
  <2>11. Held(m)
    BY <2>4, <2>6, <2>8, <2>10 DEF Held, CheckFits
  <2> QED
    BY <1>2, <2>5, <2>7, <2>11
<1> QED
  BY <1>1, <1>2

\* What a form that passes asks for.
LEMMA RequestType ==
  ASSUME form \in FormType, Passes(form), editing \in MappingType \cup {Absent}
  PROVE  /\ Request(form) \in MappingType
         /\ CheckFits(Request(form))
<1>1. /\ Trim(form.name) \in Texts /\ form.port \in Nat /\ form.strategy \in Strategies
      /\ form.selected \in Seq(Nodes) /\ form.filter \in Patterns \cup {NoPattern}
      /\ form.interval \in Intervals /\ UrlOf(form.url) \in Texts
      /\ form.user \in {"", "good", "bad"} /\ form.pass \in {"", "set"}
  BY DEF FormType, Passes, Texts, Trim, UrlOf
<1> DEFINE nodes == IF form.mode = "nodes" THEN form.selected ELSE <<>>
           filter == IF form.mode = "filter" THEN Trimmed[form.filter] ELSE NoPattern
           interval == IF form.strategy = "single" THEN NoCheck ELSE form.interval
           url == IF form.strategy = "single" THEN NoCheck ELSE UrlOf(form.url)
           enabled == IF editing = Absent THEN TRUE ELSE editing.enabled
           r(nm, pt, st, us, pw) ==
             [port |-> pt, name |-> nm, strategy |-> st, nodes |-> nodes, filter |-> filter,
              interval |-> interval, url |-> url, user |-> us, pass |-> pw,
              enabled |-> enabled]
<1>2. nodes \in Seq(Nodes)
  BY <1>1, EmptySeq
<1>3. filter \in Patterns \cup {NoPattern}
  BY <1>1, FormAssumption
<1>4. interval \in Intervals \cup {NoCheck} /\ (form.strategy = "single" <=> interval = NoCheck)
      /\ url \in Texts \cup {NoCheck} /\ (form.strategy = "single" <=> url = NoCheck)
  BY <1>1, FormAssumption
<1>5. enabled \in BOOLEAN
  <2>1. CASE editing = Absent
    BY <2>1
  <2>2. CASE editing # Absent
    <3>1. editing.enabled \in BOOLEAN
      BY <2>2 DEF MappingType
    <3> QED
      BY <2>2, <3>1, Zenon
  <2> QED
    BY <2>1, <2>2
<1>6. /\ Request(form) = r(Trim(form.name), form.port, form.strategy, form.user, form.pass)
      /\ Request(form).strategy = form.strategy
      /\ Request(form).interval = interval /\ Request(form).url = url
  BY DEF Request
<1> HIDE DEF nodes, filter, interval, url, enabled
<1>7. ASSUME NEW nm \in Texts, NEW pt \in Nat, NEW st \in Strategies,
             NEW us \in {"", "good", "bad"}, NEW pw \in {"", "set"}
      PROVE  r(nm, pt, st, us, pw) \in MappingType
  BY <1>2, <1>3, <1>4, <1>5 DEF MappingType
<1> HIDE DEF r
<1>8. r(Trim(form.name), form.port, form.strategy, form.user, form.pass) \in MappingType
  BY <1>1, <1>7
<1> QED
  BY <1>4, <1>6, <1>8 DEF CheckFits

-----------------------------------------------------------------------------
(* The steps *)

LEMMA FormInvInit == FormInit => FormInv
<1> SUFFICES ASSUME FormInit
             PROVE  FormInv
  OBVIOUS
<1>1. stored \in MappingType \cup {Absent}
  BY DEF FormInit, Held
<1>2. FormTypeOK
  BY <1>1, BlankType DEF FormInit, FormTypeOK
<1>3. HeldInv /\ FieldsInv /\ SentInv
  BY DEF FormInit, HeldInv, FieldsInv, SentInv
<1>4. ChoiceInv
  BY BlankType DEF FormInit, ChoiceInv
<1> QED
  BY <1>2, <1>3, <1>4 DEF FormInv

\* Only the fields of a group change.
OnlyOf(group, fields) ==
  /\ group # "name" => fields.name = form.name
  /\ group # "port" => fields.port = form.port
  /\ group # "strategy" => fields.strategy = form.strategy
  /\ group \notin {"mode", "nodes", "filter", "strategy"} =>
       /\ fields.mode = form.mode
       /\ fields.selected = form.selected
       /\ fields.filter = form.filter
  /\ group \notin {"check", "strategy"} =>
       fields.interval = form.interval /\ fields.url = form.url
  /\ group # "auth" => fields.user = form.user /\ fields.pass = form.pass

\* An edit of a group that changes the fields of that group only keeps the invariants.
LEMMA EditKeeps ==
  ASSUME FormInv, NEW group \in Groups, NEW fields \in FormType,
         OnlyOf(group, fields), fields.strategy = "single" => Len(fields.selected) <= 1,
         Edit(group, fields)
  PROVE  FormInv'
<1> USE DEF FormInv, Edit
<1>1. FormTypeOK'
  BY DEF FormTypeOK, Groups
<1>2. HeldInv' /\ SentInv'
  BY DEF HeldInv, SentInv
<1>3. ChoiceInv'
  BY DEF ChoiceInv
<1>4. FieldsInv'
  BY DEF FieldsInv, Untouched, OnlyOf, Groups
<1> QED
  BY <1>1, <1>2, <1>3, <1>4

\* The fields of a dialog that opens are those of the row.
LEMMA OpeningFields ==
  ASSUME NEW m, m # Absent => Held(m)
  PROVE  /\ FieldsOf(m) \in FormType
         /\ FieldsOf(m).strategy = "single" => Len(FieldsOf(m).selected) <= 1
<1>1. CASE m = Absent
  BY <1>1, BlankType DEF FieldsOf
<1>2. CASE m # Absent
  <2>1. m.strategy = "single" => m.filter = NoPattern /\ Len(m.nodes) = 1
    BY <1>2 DEF Held, Accepts, SetFine
  <2>2. FieldsOf(m).strategy = m.strategy
    BY <1>2 DEF FieldsOf
  <2>3. m.filter = NoPattern => FieldsOf(m).selected = m.nodes
    BY <1>2 DEF FieldsOf
  <2>4. m \in MappingType
    BY <1>2 DEF Held
  <2> QED
    <3>1. FieldsOf(m) \in FormType
      BY <2>4, FieldsType
    <3>2. ASSUME FieldsOf(m).strategy = "single"
          PROVE  Len(FieldsOf(m).selected) <= 1
      <4>1. FieldsOf(m).selected = m.nodes /\ Len(m.nodes) = 1
        BY <2>1, <2>2, <2>3, <3>2
      <4> QED
        BY <4>1
    <3> QED
      BY <3>1, <3>2
<1> QED
  BY <1>1, <1>2

LEMMA OpenKeeps ==
  ASSUME FormInv, OpenForm
  PROVE  FormInv'
<1> USE DEF FormInv, OpenForm
<1>1. /\ form' \in FormType
      /\ form'.strategy = "single" => Len(form'.selected) <= 1
  BY OpeningFields DEF HeldInv
<1>2. FormTypeOK'
  BY <1>1 DEF FormTypeOK
<1>3. HeldInv' /\ SentInv'
  BY DEF HeldInv, SentInv
<1>4. ChoiceInv'
  BY <1>1 DEF ChoiceInv
<1>5. FieldsInv'
  <2> SUFFICES ASSUME row # Absent
               PROVE  Untouched(row)'
    BY DEF FieldsInv
  <2> QED
    BY DEF Untouched, FieldsOf
<1> QED
  BY <1>2, <1>3, <1>4, <1>5

\* A step that empties the form.
LEMMA CloseKeeps ==
  ASSUME FormInv, HeldInv', SentInv', FormTypeOK',
         editing' = Absent, form' = Blank
  PROVE  FormInv'
<1>1. ChoiceInv'
  BY BlankType DEF ChoiceInv
<1>2. FieldsInv'
  BY DEF FieldsInv
<1> QED
  BY <1>1, <1>2 DEF FormInv

LEMMA NameKeeps ==
  ASSUME FormInv, EditName
  PROVE  FormInv'
<1>1. PICK v \in Texts : Edit("name", [form EXCEPT !.name = v])
  BY DEF EditName
<1> DEFINE fields == [form EXCEPT !.name = v]
<1>2. form \in FormType
  BY DEF FormInv, FormTypeOK
<1>3. fields \in FormType /\ OnlyOf("name", fields)
  BY <1>2 DEF FormType, OnlyOf
<1>4. fields.strategy = "single" => Len(fields.selected) <= 1
  BY <1>2 DEF FormInv, ChoiceInv, FormType
<1> HIDE DEF fields
<1> QED
  BY <1>1, <1>3, <1>4, EditKeeps DEF Groups, fields

LEMMA PortKeeps ==
  ASSUME FormInv, EditPort
  PROVE  FormInv'
<1>1. PICK v \in PortTexts : Edit("port", [form EXCEPT !.port = v])
  BY DEF EditPort
<1> DEFINE fields == [form EXCEPT !.port = v]
<1>2. form \in FormType /\ v \in Nat \cup {NoNumber}
  BY FormAssumption DEF FormInv, FormTypeOK
<1>3. fields \in FormType /\ OnlyOf("port", fields)
  BY <1>2 DEF FormType, OnlyOf
<1>4. fields.strategy = "single" => Len(fields.selected) <= 1
  BY <1>2 DEF FormInv, ChoiceInv, FormType
<1> HIDE DEF fields
<1> QED
  BY <1>1, <1>3, <1>4, EditKeeps DEF Groups, fields

LEMMA StrategyKeeps ==
  ASSUME FormInv, EditStrategy
  PROVE  FormInv'
<1>1. PICK v \in Strategies :
        Edit("strategy", [form EXCEPT !.strategy = v,
                                      !.selected = IF v = "single" THEN FirstOnly(@) ELSE @])
  BY DEF EditStrategy
<1> DEFINE chosen == IF v = "single" THEN FirstOnly(form.selected) ELSE form.selected
           fields == [form EXCEPT !.strategy = v, !.selected = chosen]
<1>2. form \in FormType /\ form.selected \in Seq(Nodes)
  BY DEF FormInv, FormTypeOK, FormType
<1>3. Edit("strategy", fields)
  BY <1>1, <1>2 DEF FormType
<1>4. chosen \in Seq(Nodes) /\ (v = "single" => Len(chosen) <= 1)
  BY <1>2, FirstOnlyType
<1> HIDE DEF chosen
<1>5. fields \in FormType /\ OnlyOf("strategy", fields)
  BY <1>2, <1>4 DEF FormType, OnlyOf
<1>6. fields.strategy = v /\ fields.selected = chosen
  BY <1>2 DEF FormType
<1> HIDE DEF fields
<1> QED
  BY <1>3, <1>4, <1>5, <1>6, EditKeeps DEF Groups

LEMMA ModeKeeps ==
  ASSUME FormInv, EditMode
  PROVE  FormInv'
<1>1. PICK v \in {"nodes", "filter"} : Edit("mode", [form EXCEPT !.mode = v])
  BY DEF EditMode
<1> DEFINE fields == [form EXCEPT !.mode = v]
<1>2. form \in FormType
  BY DEF FormInv, FormTypeOK
<1>3. fields \in FormType /\ OnlyOf("mode", fields)
  BY <1>2 DEF FormType, OnlyOf
<1>4. fields.strategy = "single" => Len(fields.selected) <= 1
  BY <1>2 DEF FormInv, ChoiceInv, FormType
<1> HIDE DEF fields
<1> QED
  BY <1>1, <1>3, <1>4, EditKeeps DEF Groups, fields

\* A click in the picker leaves a single mapping at most one node.
LEMMA NodesKeep ==
  ASSUME FormInv, EditNodes
  PROVE  FormInv'
<1>1. form \in FormType /\ form.selected \in Seq(Nodes)
  BY DEF FormInv, FormTypeOK, FormType
<1>2. ASSUME NEW s \in Seq(Nodes), form.strategy = "single" => Len(s) <= 1,
             Edit("nodes", [form EXCEPT !.selected = s])
      PROVE  FormInv'
  <2> DEFINE fields == [form EXCEPT !.selected = s]
  <2>1. fields \in FormType /\ OnlyOf("nodes", fields)
    BY <1>1 DEF FormType, OnlyOf
  <2>2. fields.strategy = form.strategy /\ fields.selected = s
    BY <1>1 DEF FormType
  <2>3. Edit("nodes", fields)
    BY <1>2
  <2> HIDE DEF fields
  <2> QED
    BY <1>2, <2>1, <2>2, <2>3, EditKeeps DEF Groups
<1>3. CASE \E n \in Nodes :
             Edit("nodes", [form EXCEPT !.selected = Toggled(@, n, form.strategy = "single")])
  <2>1. PICK n \in Nodes :
          Edit("nodes", [form EXCEPT
                           !.selected = Toggled(form.selected, n, form.strategy = "single")])
    BY <1>1, <1>3 DEF FormType
  <2> DEFINE s == Toggled(form.selected, n, form.strategy = "single")
  <2>2. s \in Seq(Nodes) /\ (form.strategy = "single" => Len(s) <= 1)
    BY <1>1, ToggledType
  <2> HIDE DEF s
  <2> QED
    BY <1>2, <2>1, <2>2 DEF s
<1>4. CASE \E n \in ToSet(form.selected) :
             Edit("nodes", [form EXCEPT !.selected = Without(@, n)])
  <2>1. PICK n : Edit("nodes", [form EXCEPT !.selected = Without(form.selected, n)])
    BY <1>1, <1>4 DEF FormType
  <2> DEFINE s == Without(form.selected, n)
  <2>2. s \in Seq(Nodes) /\ Len(s) <= Len(form.selected)
    BY <1>1, WithoutType
  <2> HIDE DEF s
  <2>3. form.strategy = "single" => Len(s) <= 1
    BY <1>1, <2>2 DEF FormInv, ChoiceInv
  <2> QED
    BY <1>2, <2>1, <2>2, <2>3 DEF s
<1>5. CASE /\ form.strategy = "failover"
           /\ \E i \in DOMAIN form.selected, dir \in {-1, 1} :
                Edit("nodes", [form EXCEPT !.selected = Moved(@, i, dir)])
  <2>1. PICK i \in DOMAIN form.selected, dir \in {-1, 1} :
          Edit("nodes", [form EXCEPT !.selected = Moved(form.selected, i, dir)])
    BY <1>1, <1>5 DEF FormType
  <2> DEFINE s == Moved(form.selected, i, dir)
  <2>2. s \in Seq(Nodes)
    BY <1>1, MovedType
  <2> HIDE DEF s
  <2> QED
    BY <1>2, <1>5, <2>1, <2>2 DEF s
<1> QED
  BY <1>3, <1>4, <1>5 DEF EditNodes

LEMMA FilterKeeps ==
  ASSUME FormInv, EditFilter
  PROVE  FormInv'
<1>1. PICK v \in Patterns \cup {NoPattern} : Edit("filter", [form EXCEPT !.filter = v])
  BY DEF EditFilter
<1> DEFINE fields == [form EXCEPT !.filter = v]
<1>2. form \in FormType
  BY DEF FormInv, FormTypeOK
<1>3. fields \in FormType /\ OnlyOf("filter", fields)
  BY <1>2 DEF FormType, OnlyOf
<1>4. fields.strategy = "single" => Len(fields.selected) <= 1
  BY <1>2 DEF FormInv, ChoiceInv, FormType
<1> HIDE DEF fields
<1> QED
  BY <1>1, <1>3, <1>4, EditKeeps DEF Groups, fields

LEMMA CheckKeeps ==
  ASSUME FormInv, EditCheck
  PROVE  FormInv'
<1>1. form \in FormType
  BY DEF FormInv, FormTypeOK
<1>2. ASSUME NEW fields, Edit("check", fields),
             \/ fields = [form EXCEPT !.hcOpen = ~form.hcOpen]
             \/ \E v \in Intervals : fields = [form EXCEPT !.interval = v]
             \/ \E v \in Texts : fields = [form EXCEPT !.url = v]
      PROVE  FormInv'
  <2>1. fields \in FormType /\ OnlyOf("check", fields)
    BY <1>1, <1>2 DEF FormType, OnlyOf
  <2>2. fields.strategy = "single" => Len(fields.selected) <= 1
    BY <1>1, <1>2 DEF FormInv, ChoiceInv, FormType
  <2> QED
    BY <1>2, <2>1, <2>2, EditKeeps DEF Groups
<1>3. CASE Edit("check", [form EXCEPT !.hcOpen = ~@])
  <2> DEFINE fields == [form EXCEPT !.hcOpen = ~form.hcOpen]
  <2>1. Edit("check", fields)
    BY <1>1, <1>3 DEF FormType
  <2> HIDE DEF fields
  <2> QED
    BY <1>2, <2>1 DEF fields
<1>4. CASE \E v \in Intervals : Edit("check", [form EXCEPT !.interval = v])
  BY <1>2, <1>4
<1>5. CASE \E v \in Texts : Edit("check", [form EXCEPT !.url = v])
  BY <1>2, <1>5
<1> QED
  BY <1>3, <1>4, <1>5 DEF EditCheck

LEMMA AuthKeeps ==
  ASSUME FormInv, EditAuth
  PROVE  FormInv'
<1>1. form \in FormType
  BY DEF FormInv, FormTypeOK
<1>2. CASE \E v \in {"", "good", "bad"} : Edit("auth", [form EXCEPT !.user = v])
  <2>1. PICK v \in {"", "good", "bad"} : Edit("auth", [form EXCEPT !.user = v])
    BY <1>2
  <2> DEFINE fields == [form EXCEPT !.user = v]
  <2>2. fields \in FormType /\ OnlyOf("auth", fields)
    BY <1>1 DEF FormType, OnlyOf
  <2>3. fields.strategy = "single" => Len(fields.selected) <= 1
    BY <1>1 DEF FormInv, ChoiceInv, FormType
  <2> HIDE DEF fields
  <2> QED
    BY <2>1, <2>2, <2>3, EditKeeps DEF Groups, fields
<1>3. CASE \E v \in {"", "set"} : Edit("auth", [form EXCEPT !.pass = v])
  <2>1. PICK v \in {"", "set"} : Edit("auth", [form EXCEPT !.pass = v])
    BY <1>3
  <2> DEFINE fields == [form EXCEPT !.pass = v]
  <2>2. fields \in FormType /\ OnlyOf("auth", fields)
    BY <1>1 DEF FormType, OnlyOf
  <2>3. fields.strategy = "single" => Len(fields.selected) <= 1
    BY <1>1 DEF FormInv, ChoiceInv, FormType
  <2> HIDE DEF fields
  <2> QED
    BY <2>1, <2>2, <2>3, EditKeeps DEF Groups, fields
<1> QED
  BY <1>2, <1>3 DEF EditAuth

\* A request says what the dialog was opened with, but for what the user touched.
LEMMA RequestFollows ==
  ASSUME FormInv, Passes(form), editing # Absent
  PROVE  /\ Request(form).port = 0 => "port" \in touched
         /\ \A f \in DOMAIN editing :
              Request(form)[f] # editing[f] =>
                \/ Affected(touched, f)
                \/ Request(form)[f] = Cleaned(f, editing[f])
<1> DEFINE of == editing
           in == Request(form)
<1>1. Held(of) /\ Untouched(of) /\ of \in MappingType
  BY DEF FormInv, HeldInv, FieldsInv, Held
<1>2. DOMAIN of = {"port", "name", "strategy", "nodes", "filter", "interval", "url",
                   "user", "pass", "enabled"}
  BY <1>1 DEF MappingType
<1>3. /\ in.port = form.port /\ in.name = Trim(form.name) /\ in.strategy = form.strategy
      /\ in.user = form.user /\ in.pass = form.pass
      /\ in.enabled = of.enabled
  BY DEF Request
<1>4. of.port # 0 /\ (in.port = 0 => "port" \in touched)
  BY <1>1, <1>3 DEF Held, Untouched
<1>5. /\ in.port # of.port => "port" \in touched
      /\ in.name # Trim(of.name) => "name" \in touched
      /\ in.strategy # of.strategy => "strategy" \in touched
      /\ in.user # of.user \/ in.pass # of.pass => "auth" \in touched
  BY <1>1, <1>3 DEF Untouched
<1>6. touched \cap {"mode", "nodes", "filter", "strategy"} = {} =>
        in.nodes = of.nodes /\ (in.filter = of.filter \/ in.filter = Trimmed[of.filter])
  <2> SUFFICES ASSUME touched \cap {"mode", "nodes", "filter", "strategy"} = {}
               PROVE  in.nodes = of.nodes /\ (in.filter = of.filter \/ in.filter = Trimmed[of.filter])
    OBVIOUS
  <2>1. /\ form.mode = IF of.filter # NoPattern THEN "filter" ELSE "nodes"
        /\ form.selected = IF of.filter # NoPattern THEN <<>> ELSE of.nodes
        /\ form.filter = of.filter
    BY <1>1 DEF Untouched
  <2>2. /\ in.nodes = IF form.mode = "nodes" THEN form.selected ELSE <<>>
        /\ in.filter = IF form.mode = "filter" THEN Trimmed[form.filter] ELSE NoPattern
    BY DEF Request
  <2>3. CASE of.filter # NoPattern
    <3>1. of.nodes = <<>>
      BY <1>1, <2>3 DEF Held, Accepts, SetFine
    <3>2. form.mode = "filter"
      BY <2>1, <2>3
    <3> QED
      BY <2>1, <2>2, <3>1, <3>2
  <2>4. CASE of.filter = NoPattern
    <3>1. form.mode = "nodes"
      BY <2>1, <2>4
    <3>2. form.selected = of.nodes
      BY <2>1, <2>4
    <3> QED
      BY <2>2, <2>4, <3>1, <3>2
  <2> QED
    BY <2>3, <2>4
<1>7. touched \cap {"check", "strategy"} = {} =>
        in.interval = of.interval /\ (in.url = of.url \/ in.url = UrlOf(of.url))
  <2> SUFFICES ASSUME touched \cap {"check", "strategy"} = {}
               PROVE  in.interval = of.interval /\ (in.url = of.url \/ in.url = UrlOf(of.url))
    OBVIOUS
  <2>1. /\ form.interval = IF of.interval = NoCheck THEN DefaultInterval ELSE of.interval
        /\ form.url = IF of.url = NoCheck THEN DefaultUrl ELSE of.url
        /\ form.strategy = of.strategy
        /\ of.strategy = "single" <=> of.interval = NoCheck
        /\ of.strategy = "single" <=> of.url = NoCheck
    BY <1>1 DEF Untouched, Held, CheckFits
  <2>2. /\ in.interval = IF form.strategy = "single" THEN NoCheck ELSE form.interval
        /\ in.url = IF form.strategy = "single" THEN NoCheck ELSE UrlOf(form.url)
    BY DEF Request
  <2> QED
    BY <2>1, <2>2
<1> HIDE DEF of, in
<1>8. ASSUME NEW f \in DOMAIN of, in[f] # of[f]
      PROVE  \/ Affected(touched, f)
             \/ in[f] = Cleaned(f, of[f])
  <2>1. CASE f \in {"port", "strategy", "enabled"}
    BY <1>3, <1>5, <1>8, <2>1 DEF Affected
  <2>5. CASE f = "name"
    BY <1>5, <1>8, <2>5 DEF Affected, Cleaned
  <2>2. CASE f \in {"user", "pass"}
    BY <1>5, <1>8, <2>2 DEF Affected
  <2>3. CASE f \in {"nodes", "filter"}
    BY <1>6, <1>8, <2>3 DEF Affected, Cleaned
  <2>4. CASE f \in {"interval", "url"}
    BY <1>7, <1>8, <2>4 DEF Affected, Cleaned
  <2> QED
    BY <1>2, <2>1, <2>2, <2>3, <2>4, <2>5
<1> QED
  BY <1>4, <1>8 DEF of, in

LEMMA SubmitKeeps ==
  ASSUME FormInv, Submit
  PROVE  FormInv'
<1> USE DEF FormInv, Submit
<1>1. /\ Request(form) \in MappingType
      /\ CheckFits(Request(form))
  BY RequestType DEF FormTypeOK
<1>2. payload'.in = Request(form) /\ payload'.of = editing /\ payload'.touched = touched
  OBVIOUS
<1>3. FormTypeOK'
  BY <1>1, <1>2 DEF FormTypeOK
<1>4. HeldInv' /\ ChoiceInv' /\ FieldsInv'
  BY DEF HeldInv, ChoiceInv, FieldsInv, Untouched
<1>5. SentInv'
  <2>1. editing # Absent => Held(editing)
    BY DEF HeldInv
  <2>2. editing # Absent => Follows(payload')
    BY <1>2, RequestFollows DEF Follows
  <2> QED
    BY <1>1, <1>2, <2>1, <2>2 DEF SentInv
<1> QED
  BY <1>3, <1>4, <1>5

\* What the server makes of a request is something it accepts.
LEMMA StoresKeeps ==
  ASSUME FormInv, payload # Absent, Stores \/ UNCHANGED stored
  PROVE  /\ stored' \in MappingType \cup {Absent}
         /\ stored' # Absent => Held(stored')
<1>1. CASE Stores
  <2>1. Held(stored')
    BY <1>1, BuildHeld DEF FormInv, SentInv, Stores
  <2> QED
    BY <2>1 DEF Held
<1>2. CASE UNCHANGED stored
  BY <1>2 DEF FormInv, FormTypeOK, HeldInv
<1> QED
  BY <1>1, <1>2

LEMMA FormInvStep == FormInv /\ [FormNext]_formVars => FormInv'
<1> SUFFICES ASSUME FormInv, [FormNext]_formVars
             PROVE  FormInv'
  OBVIOUS
<1>0. CASE UNCHANGED formVars
  BY <1>0 DEF FormInv, FormTypeOK, HeldInv, ChoiceInv, FieldsInv, Untouched, SentInv, formVars
<1>1. CASE CloseForm
  <2>1. FormTypeOK' /\ HeldInv' /\ SentInv'
    BY <1>1, BlankType DEF CloseForm, FormInv, FormTypeOK, HeldInv, SentInv
  <2> QED
    BY <1>1, <2>1, CloseKeeps DEF CloseForm
<1>2. CASE Saved
  <2>1. FormTypeOK' /\ HeldInv'
    BY <1>2, BlankType, StoresKeeps DEF Saved, FormInv, FormTypeOK, HeldInv
  <2>2. SentInv'
    BY <1>2 DEF Saved, SentInv
  <2> QED
    BY <1>2, <2>1, <2>2, CloseKeeps DEF Saved
<1>3. CASE NotSaved
  <2>1. FormTypeOK' /\ HeldInv'
    BY <1>3, StoresKeeps DEF NotSaved, FormInv, FormTypeOK, HeldInv
  <2>2. SentInv' /\ ChoiceInv' /\ FieldsInv'
    BY <1>3 DEF NotSaved, FormInv, SentInv, ChoiceInv, FieldsInv, Untouched
  <2> QED
    BY <2>1, <2>2 DEF FormInv
<1>4. CASE ReloadRow
  BY <1>4 DEF ReloadRow, FormInv, FormTypeOK, HeldInv, ChoiceInv, FieldsInv, Untouched, SentInv
<1>5. CASE DeleteElsewhere
  BY <1>5 DEF DeleteElsewhere, FormInv, FormTypeOK, HeldInv, ChoiceInv, FieldsInv, Untouched,
              SentInv
<1>6. CASE ToggleElsewhere
  <2>1. Held(stored) /\ stored \in MappingType
    BY <1>6 DEF ToggleElsewhere, FormInv, HeldInv, Held
  <2> DEFINE m == [stored EXCEPT !.enabled = ~stored.enabled]
  <2>2. m \in MappingType
    BY <2>1 DEF MappingType
  <2>3. /\ m.port = stored.port /\ m.strategy = stored.strategy /\ m.nodes = stored.nodes
        /\ m.filter = stored.filter /\ m.interval = stored.interval /\ m.url = stored.url
        /\ m.user = stored.user /\ m.pass = stored.pass
    BY <2>1 DEF MappingType
  <2>4. stored' = m
    BY <1>6, <2>1 DEF ToggleElsewhere
  <2> HIDE DEF m
  <2>5. Held(m)
    BY <2>1, <2>2, <2>3 DEF Held, Accepts, PortFine, SetFine, AuthFine, CheckFits
  <2> QED
    BY <1>6, <2>2, <2>4, <2>5
       DEF ToggleElsewhere, FormInv, FormTypeOK, HeldInv, ChoiceInv, FieldsInv, Untouched, SentInv
<1> QED
  BY <1>0, <1>1, <1>2, <1>3, <1>4, <1>5, <1>6, OpenKeeps, NameKeeps, PortKeeps, StrategyKeeps,
     ModeKeeps, NodesKeep, FilterKeeps, CheckKeeps, AuthKeeps, SubmitKeeps DEF FormNext

-----------------------------------------------------------------------------
(* The theorems *)

\* The dialog and the server stay well typed, for any nodes, ports and patterns
\* (mapping-dialog.tsx:64-77, lib/types.ts:54-66).
THEOREM FormTypeCorrect == FormSpec => []FormTypeOK
<1>1. FormInv => FormTypeOK
  BY DEF FormInv
<1> QED
  BY <1>1, FormInvInit, FormInvStep, PTL DEF FormSpec

\* Whatever is clicked in whatever order, the server refuses what the dialog lets
\* through only for the named reasons: in particular never for a missing or a second
\* choice of nodes, and never for the credentials (mapping-dialog.tsx:133-188,
\* validate.go:60-141).
THEOREM RefusalsAreNamed == FormSpec => []RefusedOnlyFor
<1>1. FormInv => RefusedOnlyFor
  <2> SUFFICES ASSUME FormInv, Passes(form)
               PROVE  Accepts(Request(form)) \/ ServerOnly(Request(form))
    BY DEF RefusedOnlyFor
  <2> DEFINE in == Request(form)
  <2> SUFFICES ASSUME ~ServerOnly(in)
               PROVE  Accepts(in)
    OBVIOUS
  <2>1. /\ in.strategy = form.strategy /\ in.user = form.user /\ in.pass = form.pass
        /\ in.nodes = IF form.mode = "nodes" THEN form.selected ELSE <<>>
        /\ in.filter = IF form.mode = "filter" THEN Trimmed[form.filter] ELSE NoPattern
    BY DEF Request
  <2>2. form.mode \in {"nodes", "filter"} /\ form.selected \in Seq(Nodes)
    BY DEF FormInv, FormTypeOK, FormType
  <2>3. form.mode = "filter" => Trimmed[form.filter] # NoPattern
    BY DEF Passes
  <2>4. form.mode = "nodes" => form.selected # <<>>
    BY <2>2 DEF Passes
  <2>5. AuthFine(in)
    BY <2>1 DEF AuthFine, Passes
  <2>6. (in.nodes # <<>>) # (in.filter # NoPattern)
    <3>1. CASE form.mode = "nodes"
      BY <2>1, <2>4, <3>1
    <3>2. CASE form.mode = "filter"
      BY <2>1, <2>3, <3>2
    <3> QED
      BY <2>2, <3>1, <3>2
  <2>7. ASSUME in.strategy = "single", in.filter = NoPattern
        PROVE  Len(in.nodes) = 1
    <3>1. form.mode = "nodes"
      BY <2>1, <2>2, <2>3, <2>7
    <3>2. form.selected # <<>> /\ Len(form.selected) <= 1
      BY <2>1, <2>4, <2>7, <3>1 DEF FormInv, ChoiceInv
    <3>3. Len(form.selected) = 1
      <4>1. Len(form.selected) \in Nat \ {0}
        BY <2>2, <3>2, EmptySeq, Zenon
      <4>2. Len(form.selected) <= 1
        BY <3>2
      <4>3. \A k \in Nat \ {0} : k <= 1 => k = 1
        OBVIOUS
      <4> QED
        BY <4>1, <4>2, <4>3, Zenon
    <3> QED
      BY <2>1, <3>1, <3>3
  <2> HIDE DEF in
  <2>8. SetFine(in)
    BY <2>6, <2>7 DEF SetFine, ServerOnly
  <2> QED
    BY <2>5, <2>8 DEF Accepts, ServerOnly
<1> QED
  BY <1>1, FormInvInit, FormInvStep, PTL DEF FormSpec

\* The full update that is sent writes over nothing but what its user touched, what
\* changed on the server since the row was loaded, the blanks around a name, a pattern
\* and a URL, and an empty URL (mapping-dialog.tsx:83-105, 132-188; mappings.go:123-161).
THEOREM EditsKeepTheRest == FormSpec => OthersKept
<1> DEFINE Keeps == payload # Absent /\ payload' = Absent /\ payload.of # Absent
                      /\ stored # Absent =>
             \A f \in DOMAIN stored :
               stored'[f] # stored[f] =>
                 \/ Affected(payload.touched, f)
                 \/ payload.of[f] # stored[f]
                 \/ stored'[f] = Cleaned(f, stored[f])
<1>1. FormInv /\ [FormNext]_formVars => [Keeps]_formVars
  <2> SUFFICES ASSUME FormInv, FormNext, payload # Absent, payload' = Absent,
                      payload.of # Absent, stored # Absent,
                      NEW f \in DOMAIN stored, stored'[f] # stored[f],
                      payload.of[f] = stored[f]
               PROVE  \/ Affected(payload.touched, f)
                      \/ stored'[f] = Cleaned(f, stored[f])
    BY DEF Keeps
  <2>1. Stores \/ UNCHANGED stored
    BY DEF FormNext, OpenForm, CloseForm, EditName, EditPort, EditStrategy, EditMode, EditNodes,
           EditFilter, EditCheck, EditAuth, Edit, Submit, Saved, NotSaved, ReloadRow,
           ToggleElsewhere, DeleteElsewhere
  <2>2. Stores
    BY <2>1
  <2> DEFINE in == payload.in
  <2>3. /\ in \in MappingType /\ Accepts(in)
        /\ CheckFits(in)
        /\ stored' = Build(in)
        /\ payload.of \in MappingType /\ stored \in MappingType
        /\ Follows(payload)
    BY <2>2 DEF FormInv, FormTypeOK, SentInv, HeldInv, Held, Stores
  <2>4. DOMAIN stored = DOMAIN in /\ DOMAIN payload.of = DOMAIN in
    BY <2>3 DEF MappingType
  <2>5. CASE f = "port" /\ in.port = 0
    BY <2>3, <2>5 DEF Follows, Affected
  <2>6. CASE f # "port" \/ in.port # 0
    <3>1. stored'[f] = in[f]
      BY <2>3, <2>4, <2>6, BuildHeld
    <3>2. in[f] # payload.of[f]
      BY <3>1
    <3> QED
      BY <2>3, <2>4, <3>1, <3>2 DEF Follows
  <2> QED
    BY <2>5, <2>6
<1> QED
  BY <1>1, FormInvInit, FormInvStep, PTL DEF FormSpec, OthersKept, Keeps
=============================================================================
