\* A line of three cells is cut both by the buffer (4) and by rotation; the larger
\* limit lets the file grow to twice the smaller one, so that two rotations after a
\* lowered limit still leave it above.
CONSTANTS
  LogLine = 3
  BufCap = 4
  LogSizes = {6, 12}
  RingSizes = {1, 3}
  MaxAdds = 6
  LogFaults = 2
SPECIFICATION LogSpec
INVARIANTS LogOrdered ClearedStaysCleared NoGaps SizeExact
PROPERTIES FileBounded
