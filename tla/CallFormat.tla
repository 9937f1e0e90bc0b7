----------------------------- MODULE CallFormat -----------------------------
(***************************************************************************)
(* What a call of ClientCore puts into a frame, what FrameRouter makes of  *)
(* it, how it answers and what ClientCore returns.  A call is an operation *)
(* with a name, a text and a number, as far as it has them.                *)
(***************************************************************************)
EXTENDS WireFormat

Call(op, name, text, n) == [op |-> op, name |-> name, text |-> text, n |-> n]

(* A text of that length and the strings before it leave a frame able to   *)
(* say how long it is.                                                     *)
MaxText == MaxUint32 - 2 * (MaxString + 5)

(* What ClientCore may be asked for; what an operation has not is empty. *)
ClientCalls ==
    {c \in [op : {"login", "logout", "join", "message", "push", "pull",
                  "friends", "add", "remark"},
            name : Seq(Nat), text : Seq(Nat), n : 0..MaxUint32] :
        /\ Len(c.text) <= MaxText
        /\ c.op \in {"logout", "pull", "friends"} => c.name = << >>
        /\ c.op \notin {"login", "add", "remark", "push"} => c.text = << >>
        /\ c.op # "message" => c.n = 0}

(* ClientCore knows no heartbeat, leave or kick; the router does. *)
TypeOf(op) == IF op \in {"join", "leave", "kick"} THEN FrameTypes.group
              ELSE FrameTypes[op]

GroupActions == <<"join", "leave", "kick">>

EncodeCall(c) ==
    CASE c.op \in {"login", "add", "remark"} ->
            WriteString(c.name) \o WriteString(c.text)
      [] c.op = "join" -> <<0>> \o WriteString(c.name)
      [] c.op = "message" -> WriteString(c.name) \o WriteUint32(c.n)
      [] c.op = "push" -> WriteString(c.name) \o WriteBytes(c.text)
      [] c.op \in {"logout", "pull", "friends"} -> << >>
-----------------------------------------------------------------------------
(* FrameRouter::Handle up to the call of ApiService.                       *)

DecodeNamed(op, payload, offset) ==
    Then(ReadString(payload, offset),
         LAMBDA name, at : Got(Call(op, name, << >>, 0), at))

DecodeText(call, text) ==
    Then(text, LAMBDA t, at : Got([call EXCEPT !.text = t], at))

DecodePair(op, payload) ==
    Then(DecodeNamed(op, payload, 0),
         LAMBDA call, at : DecodeText(call, ReadString(payload, at)))

(* The remark may be missing from the payload, not be cut. *)
DecodeAdd(payload) ==
    Then(DecodeNamed("add", payload, 0),
         LAMBDA call, at : IF at = Len(payload) THEN Got(call, at)
                           ELSE DecodeText(call, ReadString(payload, at)))

(* Without a readable threshold the server's own one counts. *)
DecodeMessage(payload, threshold) ==
    Then(DecodeNamed("message", payload, 0),
         LAMBDA call, at :
            IF at + 4 > Len(payload) THEN Got([call EXCEPT !.n = threshold], at)
            ELSE Then(ReadUint32(payload, at),
                      LAMBDA n, end : Got([call EXCEPT !.n = n], end)))

DecodeGroup(payload) ==
    IF payload = << >> THEN Unread
    ELSE DecodeNamed(IF payload[1] \in 0..2 THEN GroupActions[payload[1] + 1]
                     ELSE "invalid", payload, 1)

DecodePush(payload) ==
    Then(DecodeNamed("push", payload, 0),
         LAMBDA call, at : DecodeText(call, ReadBytes(payload, at)))

DecodeCall(type, payload, token, threshold) ==
    LET bare(op) == Got(Call(op, << >>, << >>, 0), 0)
        withToken(call) == IF token = << >> THEN Unread ELSE call
    IN  CASE type = FrameTypes.login -> DecodePair("login", payload)
          [] type = FrameTypes.logout -> withToken(bare("logout"))
          [] type = FrameTypes.group -> DecodeGroup(payload)
          [] type = FrameTypes.message -> DecodeMessage(payload, threshold)
          [] type = FrameTypes.heartbeat -> bare("heartbeat")
          [] type = FrameTypes.push -> DecodePush(payload)
          [] type = FrameTypes.pull -> bare("pull")
          [] type = FrameTypes.friends -> withToken(bare("friends"))
          [] type = FrameTypes.add -> withToken(DecodeAdd(payload))
          [] type = FrameTypes.remark -> withToken(DecodePair("remark", payload))
          [] OTHER -> Unread
-----------------------------------------------------------------------------
(* Responses.  A rotation is << >> or <<version, reason>>, a list has the  *)
(* messages or <<user, remark>> pairs.                                     *)

Response(success, error, token, rotation, list) ==
    [success |-> success, error |-> error, token |-> token,
     rotation |-> rotation, list |-> list]

Flag(b) == IF b THEN <<1>> ELSE <<0>>
Failure(r) == IF r.success THEN << >> ELSE WriteString(r.error)
Rotation(r) == WriteUint32(r.rotation[1]) \o <<r.rotation[2]>>

WriteFriend(f) == WriteString(f[1]) \o WriteString(f[2])

WriteList(op, list) ==
    LET bytes[i \in 0..Len(list)] ==
          IF i = 0 THEN WriteUint32(Len(list))
          ELSE bytes[i - 1] \o (IF op = "pull" THEN WriteBytes(list[i])
                                ELSE WriteFriend(list[i]))
    IN  bytes[Len(list)]

(* What a response may list: a frame is able to say how long it is, and a  *)
(* friend's name and remark came through a frame themselves.               *)
MaxList == MaxUint32 - (MaxString + 5)
MessageLists == {m \in Seq(Seq(Nat)) : Len(WriteList("pull", m)) <= MaxList}
ShortFriends ==
    {f \in Seq(Nat) \X Seq(Nat) : Len(f[1]) <= MaxString /\ Len(f[2]) <= MaxString}
FriendPairLists ==
    {l \in Seq(ShortFriends) : Len(WriteList("friends", l)) <= MaxList}

EncodeResponse(op, r) ==
    Flag(r.success) \o
    CASE op = "login" /\ r.success -> WriteString(r.token)
      [] op \in {"join", "leave", "kick"} /\ r.success -> Rotation(r)
      [] op = "message" -> (IF r.success /\ r.rotation # << >>
                            THEN <<1>> \o Rotation(r) ELSE <<0>>) \o Failure(r)
      [] op \in {"pull", "friends"} /\ r.success -> WriteList(op, r.list)
      [] OTHER -> Failure(r)
-----------------------------------------------------------------------------
(* What ClientCore returns: whether it worked, and the list or the token.  *)

Returned(ok, list) == [ok |-> ok, list |-> list]

(* A call whose round trip failed; Logout ignores that. *)
NoReply(op) == Returned(op \in {"logout", "pull", "friends"}, << >>)

(* A list may end after a name: that friend has no remark. *)
ReadFriend(payload, at) ==
    Then(ReadString(payload, at),
         LAMBDA name, end :
            IF end = Len(payload) THEN Got(<<name, << >>>>, end)
            ELSE Then(ReadString(payload, end),
                      LAMBDA remark, last : Got(<<name, remark>>, last)))

(* The loops of PullOffline and ListFriends: they end at the first element *)
(* that cannot be read.                                                    *)
ReadList(op, payload) ==
    LET more(list, e) == IF e.ok THEN [e EXCEPT !.value = Append(list, @)]
                         ELSE [ok |-> FALSE, value |-> list]
        read(at) == IF op = "pull" THEN ReadBytes(payload, at)
                    ELSE ReadFriend(payload, at)
        all(count, at) ==
          LET got[i \in 0..count] ==
                IF i = 0 THEN Got(<< >>, at)
                ELSE IF got[i - 1].ok
                     THEN more(got[i - 1].value, read(got[i - 1].at))
                     ELSE got[i - 1]
          IN  got[count]
    IN  Then(ReadUint32(payload, 1), all)

Listed(read) == IF "value" \in DOMAIN read THEN read.value ELSE << >>

ParseLogin(payload) ==
    LET result(text) == IF ~text.ok \/ payload[1] = 0 THEN Returned(FALSE, << >>)
                        ELSE Returned(TRUE, <<text.value>>)
    IN  IF payload = << >> THEN Returned(FALSE, << >>)
        ELSE result(ReadString(payload, 1))

ParseList(op, payload) ==
    IF payload = << >> \/ (payload # << >> /\ payload[1] = 0) THEN << >>
    ELSE Listed(ReadList(op, payload))

ParseResponse(op, payload) ==
    LET success == payload # << >> /\ payload[1] # 0 IN
    CASE op = "login" -> ParseLogin(payload)
      [] op = "logout" -> Returned(TRUE, << >>)
      [] op \in {"pull", "friends"} -> Returned(TRUE, ParseList(op, payload))
      [] op \in {"join", "message"} -> Returned(success, << >>)
      [] OTHER -> Returned(payload # << >> /\ payload[1] = 1, << >>)
=============================================================================
