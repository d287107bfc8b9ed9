SPECIFICATION Spec
CONSTANTS
    g1 = g1  g2 = g2  w1 = w1  w2 = w2
    Tables = {1, 2, 3}
    Guests = {g1, g2}
    NoTable = 0
    Seats <- MCSeats
    Writers = {w1, w2}
    Bodies <- OwnBodies
    Initial <- MCInitial
INVARIANTS CheckStands NeverOver
