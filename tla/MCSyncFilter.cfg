\* Allow and Deny in any order.
CONSTANTS
  x = x  NoEntry = NoEntry
  Contents = {x}
SPECIFICATION FilterSpec
PROPERTIES DeniedByDefault
