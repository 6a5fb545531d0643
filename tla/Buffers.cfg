CONSTANTS
    upd = upd  ren = ren  ren2 = ren2  main = main  b1 = b1  b2 = b2  b3 = b3  b4 = b4
    NoThread = NoThread
    None = None
    Writers = {upd}
    Readers = {ren, ren2}
    Clearers = {upd}
    Buffers = {b1, b2, b3}
SPECIFICATION FairSpec
PROPERTIES ImplementsExchange ClearCompletes WriteGetsBuffer
