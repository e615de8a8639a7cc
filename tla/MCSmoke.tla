------------------------------ MODULE MCSmoke ------------------------------
EXTENDS Smoke
CONSTANTS a, b, c
Plain == {a, b, c}
\* Payloads that hold every special byte, at the start and at the end.
Payloads == [m \in Messages |->
  CASE m.type = "notification" -> IF m.locked THEN <<SOF, a>> ELSE <<b, ESC>>
    [] OTHER -> CASE m.request = "info1" -> <<EOF>> [] m.request = "info2" -> <<a>>
      [] m.request = "list" -> <<b, b>> [] m.request = "lock" -> <<a, SOF, b>>
      [] m.request = "unlock" -> <<c>>]
=============================================================================
