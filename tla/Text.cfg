CONSTANTS
  CJSON_NESTING_LIMIT = 2
  NumberLength = 3
  INT_MAX = 40
  DefaultBufferSize = 8
  Levels = 3
  Text <- MCText
  StringCase <- MCStringCase
  Document <- MCDocument
  Comment <- MCComment
  Luck = {0, 1, 2, 3, 4, 5, 9}
  MaxLuck = 9
  Prebuffer = {1, 10}
  MaxLength = 20
SPECIFICATION Spec
CHECK_DEADLOCK FALSE
INVARIANT ParsedOrNothing
 
INVARIANT StringsMeanWhatTheySay
INVARIANT NoOverrun
INVARIANT PrintedOrNothing
INVARIANT ReadBackIsSame
INVARIANT MinifiedIsUnformatted
