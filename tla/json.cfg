SPECIFICATION Spec
CONSTANTS
  a = a
  b = b
  noname = noname
  Names = {a, b}
  NoName = noname
  Scalars = {"number", "string"}
  Values = {7}
  MaxItems = 4
  EntersEmpty = FALSE
PROPERTIES
  ReadsAsWritten
  ParsesAsWritten
