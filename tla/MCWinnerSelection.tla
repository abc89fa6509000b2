------------------------- MODULE MCWinnerSelection --------------------------
EXTENDS WinnerSelection
Sold(id, name, tags, attributes, price) ==
  [id |-> id, name |-> name, tags |-> tags, attributes |-> attributes, price |-> price]
\* product 1 in two stores' words and prices, its double of another id, and others
Wanted == Sold(1, {1, 2}, {1}, {1}, 3)
Dearer == Sold(1, {1, 2}, {1}, {2}, 4)
Renamed == Sold(1, {3}, {}, {1}, 3)
Double == Sold(2, {1, 2}, {1}, {2}, 3)
Other == Sold(3, {3}, {}, {}, NoPrice)
Nameless == Sold(0, {}, {}, {}, 3)
Menus == {<<>>, <<Wanted>>, <<Double>>, <<Dearer>>, <<Double, Renamed>>, <<Other, Nameless>>}
Ordered == Sold(1, {}, {}, {2}, 3)
Orders ==
  [store : {0, 2, 4}, products : {<<Ordered>>}, total : {6}]
    \cup [store : {3}, products : {<<>>, <<Ordered>>}, total : {6, NoPrice}]
Towns == [{1, 2, 3} -> Menus] \cup [{2, 3} -> Menus] \cup {<<>>}
AllTasks == [stores : Towns, order : Orders]
KsZeroToThree == 0..3
Both == BOOLEAN
=============================================================================
