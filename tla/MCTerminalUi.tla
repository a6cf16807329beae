--------------------------- MODULE MCTerminalUi ---------------------------
(***************************************************************************)
(* Instances of TerminalUi for TLC.  A user stays with the repeaters or    *)
(* with the packets; both switch pages, so every key can be pressed while  *)
(* the other page is shown.                                                *)
(***************************************************************************)
EXTENDS TerminalUi

VARIABLE user

A(status, heard) == [key |-> "a", repeater |-> TRUE, status |-> status,
                     registered |-> TRUE, heard |-> heard, name |-> 1, place |-> 0]
B(heard) == [key |-> "b", repeater |-> TRUE, status |-> "none",
             registered |-> FALSE, heard |-> heard, name |-> 2, place |-> 3]
Chat == [key |-> "c", repeater |-> FALSE, status |-> "none",
         registered |-> TRUE, heard |-> 9, name |-> 0, place |-> 4]

\* b is heard after a and overtakes it, a is managed, and the node's position
\* is no longer known.
TwoViews == {[contacts |-> <<A("none", 2), Chat, B(1)>>, here |-> 1],
             [contacts |-> <<A("managed", 2), B(3)>>, here |-> 0]}

ThreeRows == <<"managed", "distance", "group">>

KeysOf == [repeaters |-> Keys \ {"l", "Space"},
           packets   |-> Keys \cap {"F1", "F2", "F3", "q", "Esc", "Up", "Down",
                                    "Enter", "l"}]

MCInit == Init /\ user \in {"repeaters", "packets"}

MCNext ==
  /\ UNCHANGED user
  /\ \/ \E k \in KeysOf[user] : Press(k)
     \/ Draw
     \/ user = "repeaters" /\ \E s \in Snapshots : ApplySnapshot(s)
     \/ \E key \in asked, n \in Neighbours \cup {None} : ApplyCategory(key, n)
     \/ user = "packets" /\ \E key \in Payloads, at \in Times :
          /\ key = Undecoded => at = 1
          /\ boot > 1 => log = <<>>
          /\ HearPacket(key, at)
     \/ Connect
     \/ Backlog
     \/ user = "packets" /\ PushPacket
     \/ user = "packets" /\ Disconnect
     \/ Restart

MCSpec == MCInit /\ [][MCNext]_<<vars, user>>
=============================================================================
