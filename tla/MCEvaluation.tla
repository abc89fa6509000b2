---------------------------- MODULE MCEvaluation ----------------------------
EXTENDS Evaluation
Item(price, quantity, attributes) ==
  [id |-> Text(5), price |-> price, quantity |-> quantity, attributes |-> attributes]
Products(items) == [shape |-> "list", items |-> items]
Plain ==
  [status |-> Text(4), type |-> DeliveryText, note |-> Empty, shipping |-> Null,
   location |-> [shape |-> "object", address |-> Text(6), longitude |-> Num(7)],
   total |-> Num(6), products |-> Products(<<Item(Num(6), Num(2), Empty)>>)]
Texts == {Null, Absent, Empty, Text(4), Value("int", 4), Value("floattext", 4),
          Value("bool", 2), Value("booltext", 2), Value("struct", 1)}
Numbers == {Null, Empty, Value("int", 2), Num(3), Value("inttext", 4), Value("floattext", 4),
            Value("bool", 2), Value("struct", 1), Absent}
SomeLocations ==
  {Unplaced(s) : s \in {"absent", "null", "empty", "falsy", "scalar"}}
    \cup [shape : {"object"}, address : Texts, longitude : Numbers]
Items ==
  [id : {Text(5)}, price : Numbers, quantity : Numbers, attributes : {Empty}]
    \cup [id : Texts, price : {Num(6)}, quantity : {Num(2)}, attributes : Texts]
NoList == {[shape |-> s, items |-> <<>>] : s \in {"absent", "null", "list", "scalar"}}
OneOff(o) ==
  {[o EXCEPT !.status = x] : x \in Texts} \cup {[o EXCEPT !.type = x] : x \in Texts}
    \cup {[o EXCEPT !.note = x] : x \in Texts} \cup {[o EXCEPT !.total = x] : x \in Numbers}
    \cup {[o EXCEPT !.shipping = x] : x \in Texts \cup {NullText, NoneText}}
    \cup {[o EXCEPT !.location = x] : x \in SomeLocations}
    \cup {[o EXCEPT !.products = x] : x \in NoList \cup {Products(<<i>>) : i \in Items}}
Reordered == [Plain EXCEPT !.products =
  Products(<<Item(Num(6), Num(2), Empty), Item(Num(4), Num(2), Text(4))>>)]
Swapped == [Reordered EXCEPT !.products.items = <<@[2], @[1]>>]
Nowhere == [Plain EXCEPT !.location = Unplaced("null")]
FewTemplates == {Plain, Reordered, [Plain EXCEPT !.note = Null], Nowhere}
AllTemplates == OneOff(Plain) \cup FewTemplates
For(few) == [t \in AllTemplates |-> IF t \in FewTemplates THEN few ELSE {}]
FewArgs ==
  {Plain, Swapped, Nowhere, [Plain EXCEPT !.products = [shape |-> "null", items |-> <<>>]]}
    \cup {[Plain EXCEPT !.location = Unplaced(s)] : s \in {"falsy", "scalar"}}
FewAnswers ==
  {[kind |-> "invalid_final_answer_json"], [kind |-> "unexpected_answer_shape"],
   Order(Plain), Order(Nowhere)}
OtherArgs == For(FewArgs)
OtherAnswers == For(FewAnswers)
=============================================================================
