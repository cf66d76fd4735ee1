CONSTANTS
  Members <- MCMembers
  TopicIds <- MCTopicIds
  MaxPartitions = 3
  NoMetadata = NoMetadata
SPECIFICATION Spec
INVARIANT
  UniformWhenIdentical
CHECK_DEADLOCK FALSE
