SPECIFICATION Spec
CONSTANTS
  a = a
  b = b
  capture = capture
  collection = collection
  part = part
  rest = rest
  again = again
  Orders = {a, b}
  Deliveries = {d1, d2, d3}
  Captures = {capture}
  Collections = {collection}
  Refunds = {part, rest, again}
  Shares <- MCShares
  RefundOf <- MCRefundOf
SYMMETRY Names
INVARIANT ChargedOnce
CHECK_DEADLOCK FALSE
