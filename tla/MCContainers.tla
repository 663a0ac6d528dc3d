----------------------------- MODULE MCContainers -----------------------------
(* The arrays and the string.  They share nothing, so one of them is left as it *)
(* was made while the other works.  Here malloc gives one array room for six    *)
(* elements and the other for one; 1 and 2 are equal to the comparison.         *)
EXTENDS Arrays, Strings

TwoArrays == {"large", "small"}
ThreeElems == 0 .. 2
Halved == [v \in Elems |-> (v + 1) \div 2]
MaxCapacity == [a \in Arrs |-> IF a = "large" THEN 6 ELSE 1]
SomeBytes == {"a", "f"}
ShortInputs == {<<>>, <<"a">>, <<"a", "a", "a">>}
ShortFiles == {<<>>, <<"f">>, <<"f", "f">>}

MCInit == Init /\ StrInit

MCNext ==
  \/ /\ StrInit /\ Next /\ UNCHANGED strVars
     /\ \A a \in Arrs : arr'[a].capacity <= MaxCapacity[a]
  \/ Init /\ StrNext /\ UNCHANGED arr

MCSpec == MCInit /\ [][MCNext]_<<arr, strVars>>

===============================================================================
