------------------------------- MODULE MCService -------------------------------
(***************************************************************************)
(* Instances of ServiceCall, two calls, and of ServiceData, one call with  *)
(* 4-bit "64-bit" integers in base 3, for TLC.  The protocol leaves out    *)
(* what the data is and the data needs one call only, so one of the two    *)
(* halves is chosen at the start and the other stays where it is.          *)
(***************************************************************************)
EXTENDS ServiceCall, ServiceData, JsonNesting

VARIABLE half   \* "protocol" or "data"

service_vars == <<half, vars, all_vars>>

OneInput == CHOOSE input \in Inputs : TRUE

\* A half that is not run has one input.
ServiceInit ==
  /\ half \in {"protocol", "data"}
  /\ Init
  /\ half = "data" \/ (call = OneInput.call /\ document = OneInput.document /\ next_id = 0)
  /\ DataInit

RunProtocol == half = "protocol" /\ Next /\ UNCHANGED <<half, all_vars>>
RunData == half = "data" /\ DataNext /\ UNCHANGED <<half, vars>>

ServiceNext == RunProtocol \/ RunData

\* No step of a call that has not begun is fair, so nothing is asked of a
\* protocol that is not run.
ServiceSpec ==
  /\ ServiceInit /\ [][ServiceNext]_service_vars
  /\ Fairness

-----------------------------------------------------------------------------
CONSTANTS c1, c2

MCCalls2 == {c1, c2}
MCInterrupts == {"cancelled", "deadline"}

-----------------------------------------------------------------------------
T(t) == [type |-> t]
UInt(b) == [type |-> "UInt", bits |-> b]
Int_(b) == [type |-> "Int", bits |-> b]
Field(n, t) == [name |-> n, of |-> t]
Struct(fields) == [type |-> "Compound", fields |-> fields]
One(t) == Struct(<<Field("a", t)>>)
ArrayOf(t, n) == [type |-> "Array", element |-> t, length |-> n]

Integral(n) == [json |-> "integral", number |-> n]
Text(s) == [json |-> "string", text |-> s]
Obj(members) == [json |-> "object", members |-> members]
List(items) == [json |-> "array", items |-> items]
NoMembers == [n \in {} |-> 0]

Texts == UNION {[1..n -> Minus..Other] : n \in 0..4}
Integers_ == {Integral(n) : n \in -8..15}
Scalars == Integers_ \cup {Text(<<1>>), Text(<<Other>>), [json |-> "bool", bool |-> TRUE],
                           Obj(NoMembers), List(<<>>)}
           \cup {[json |-> "real", class |-> c] : c \in {"float", "double", "inf"}}
Stamps == {Obj([secs |-> Integral(s), nsecs |-> Integral(n)]) : s, n \in -5..8}
          \cup {Obj([secs |-> Integral(1)]), Obj([secs |-> Text(<<1>>), nsecs |-> Text(<<2>>)])}
Lists == {List(s) : s \in UNION {[1..n -> {Integral(1), Integral(4)}] : n \in 0..3}}
Deep == One(One(T("Bool")))
Deeper == One(Deep)
True == [json |-> "bool", bool |-> TRUE]

\* Fields of every type, each with the values that its branch tells apart.
FieldDocuments ==
  {<<t, v>> : t \in {UInt(2), UInt(4), Int_(2), Int_(4)},
              v \in {Text(s) : s \in Texts} \cup Scalars}
  \cup {<<T(t), v>> : t \in {"Bool", "Float32", "Float64", "String"}, v \in Scalars}
  \cup {<<T(t), v>> : t \in {"Time", "Duration"}, v \in Scalars \cup Stamps}
  \cup {<<ArrayOf(UInt(2), n), v>> : n \in {-1, 2}, v \in Scalars \cup Lists}
  \cup {<<ArrayOf(One(T("Bool")), n), v>> :
          n \in {-1, 1}, v \in {List(<<>>), List(<<Obj([a |-> True])>>), List(<<Obj(NoMembers)>>),
                                List(<<True>>), True}}
  \cup {<<Deep, Obj([a |-> Obj([a |-> True])])>>, <<Deep, Obj([a |-> Obj(NoMembers)])>>,
        <<Deep, Obj([b |-> True])>>}

Pair == Struct(<<Field("a", UInt(2)), Field("b", T("Duration"))>>)
PairMembers == {[a |-> v] : v \in Integers_} \cup {[b |-> v] : v \in Stamps}
               \cup {[a |-> v, b |-> w] : v \in {Integral(3), Integral(4)}, w \in Stamps}
               \cup {NoMembers, [a |-> Integral(1), c |-> True]}

Documents ==
  {[known |-> TRUE, type |-> One(d[1]), value |-> Obj([a |-> d[2]])] : d \in FieldDocuments}
  \cup {[known |-> TRUE, type |-> Pair, value |-> Obj(m)] : m \in PairMembers}
Plain == [known |-> TRUE, type |-> One(T("Bool")), value |-> Obj([a |-> True])]

Usual == [service |-> 1, valid |-> TRUE, md5 |-> 2, hex |-> TRUE, payload |-> 1, wait |-> 0]

\* Sizes on both sides of every limit and of the modulus.
MCServiceRequests ==
  [service : {0, 1, 3, 4, 9}, valid : BOOLEAN, md5 : {2, 3, 10}, hex : BOOLEAN,
   payload : {0, 1, 4, 5, 8, 9}, wait : {-1, 0, 5, 6}]
MCInputs ==
  {[call |-> Usual, document |-> d] : d \in Documents \cup {[Plain EXCEPT !.known = FALSE]}}
  \cup {[call |-> c, document |-> Plain] : c \in MCServiceRequests}

RECURSIVE Tuples(_)
Tuples(sets) ==
  IF sets = <<>> THEN {<<>>}
  ELSE {<<x>> \o t : x \in Head(sets), t \in Tuples(Tail(sets))}

\* Messages as they come from the wire, whose stamps need not be normalized.
RECURSIVE MCWireMessages(_)
MCWireMessages(type) ==
  CASE type.type = "Bool" -> BOOLEAN
    [] type.type \in {"UInt", "Int"} -> RangeOf(type)
    [] type.type \in {"Float32", "Float64"} -> {"float", "inf"}
    [] type.type = "String" -> {<<>>, <<1, Other>>}
    [] type.type = "Time" -> {<<0, 0>>, <<7, 2>>, <<1, 3>>}
    [] type.type = "Duration" -> {<<-4, 0>>, <<-4, 2>>, <<3, 2>>, <<1, -1>>}
    [] type.type = "Compound" ->
         Tuples([i \in DOMAIN type.fields |-> MCWireMessages(type.fields[i].of)])
    [] type.type = "Array" ->
         UNION {[1..n -> MCWireMessages(type.element)] :
                  n \in IF type.length >= 0 THEN {type.length} ELSE 0..3}
==============================================================================
