------------------------------ MODULE MCEeprom ------------------------------
EXTENDS Eeprom
MCWeight == [n \in 0 .. Width |-> 2 ^ n]
MCProfile == {[short |-> TRUE, address |-> 1, size |-> 2, page |-> 2],
              [short |-> FALSE, address |-> 1, size |-> 8, page |-> 2],
              [short |-> FALSE, address |-> 2, size |-> 4, page |-> 2]}
MCMaxSent == [p \in MCProfile |-> IF p.size = 8 THEN 1 ELSE 2]
=============================================================================
