--------------------------- MODULE MCServerProcess ---------------------------
(* Values for the run of ServerProcess: bytes of two bits, so that a string *)
(* of 16 bytes is cut, and a recv of 28 bytes.                              *)
EXTENDS ServerProcess

CONSTANTS c1, c2

Ann == <<1>>
Bob == <<2>>
Long == [i \in 1..(MaxString + 1) |-> 1]

MCTokenOf == c1 :> <<1>> @@ c2 :> <<3>>

MCCalls ==
    c1 :> {Call("login", Ann, <<1>>, 0), Call("login", Ann, <<2>>, 0),
           Call("login", Ann, <<3, 1, 3>>, 0),
           Call("login", Long, <<1>>, 0), Call("logout", << >>, << >>, 0),
           Call("join", Bob, << >>, 0), Call("join", Long, << >>, 0),
           Call("message", Bob, << >>, 6), Call("push", Bob, <<2, 3>>, 0),
           Call("pull", << >>, << >>, 0), Call("friends", << >>, << >>, 0),
           Call("add", Bob, << >>, 0), Call("remark", Bob, <<3>>, 0)}
    @@ c2 :> {Call("login", Bob, <<1>>, 0), Call("push", Ann, << >>, 0),
              Call("pull", << >>, << >>, 0)}

MCMail == {<< >>, <<<<2, 3>>>>, << << >>, <<1>> >>}
MCFriendLists == {<< >>, << <<Bob, << >>>>, <<Ann, <<3>>>> >>}

(* A hash has no colon and no two texts of the run have the same. *)
MCSha256Hex(text) ==
    <<3>> \o [i \in DOMAIN text |-> IF text[i] = Colon THEN 3 ELSE text[i]] \o <<3>>

User(name, stored) == [name |-> name, stored |-> stored]

(* The first line of Ann: a password, a hash, a salt with a colon and a    *)
(* hash.                                                                   *)
MCRegistries ==
    {<<User(Ann, <<1>>), User(Ann, <<2>>)>>,
     <<User(Ann, MCSha256Hex(<<1>>)), User(Bob, <<2>>)>>,
     <<User(Ann, <<3, Colon>> \o MCSha256Hex(<<3, 2>>)),
       User(Bob, MCSha256Hex(<<1>>))>>}

MCDbPassword == <<1, 0>>
=============================================================================
